---- MODULE Spec2Model ----
(***************************************************************************)
(* Model of the binary build-cache subsystem of                            *)
(* lib/spack/spack/binary_distribution.py:                                 *)
(*   - BinaryDistributionCacheManager (cached mirror indices, spec cache)  *)
(*   - build_tarball / extract_tarball                                     *)
(*   - get_spec / try_direct_fetch                                         *)
(***************************************************************************)
EXTENDS Integers, Sequences, FiniteSets, TLC

\* ------------------------------------------------------------------ bounds
NumMirrors == 3      \* mirror urls that can be configured
NumBodies == 2       \* distinct index.json bodies a mirror can serve
NumFaultyMirrors == 1 \* mirrors whose reads can fail or disagree
NumPayloads == 2     \* distinct contents of an installed prefix / a tarball
NumFullHashes == 2   \* distinct full hashes of one dag hash
NumProbeMirrors == 2 \* mirrors that get_spec can be configured to probe
MaxRecordLen == 4    \* longest spec cache record that is followed
NumRelPrefixes == 2  \* distinct prefixes relative to a layout root
NumRoots == 2        \* distinct install tree roots and spack prefixes
NumSigningKeys == 2  \* distinct signing keys gpg can hold
MaxRelocations == 2  \* calls of relocate_package on one installed prefix
NumJobs == 4         \* specs (job labels) in the DAGs given to stage_spec_jobs
NumCdashIds == 2     \* distinct CDash build ids
MaxPublications == 2 \* times the mirrors publish a new index in one behaviour
NumIndexers == 2     \* jobs that run generate_package_index on one mirror

Mirrors == 1..NumMirrors
Bodies == 1..NumBodies
FaultyMirrors == 1..NumFaultyMirrors
Payloads == 1..NumPayloads
FullHashes == 1..NumFullHashes
ProbeMirrors == 1..NumProbeMirrors
DagHashes == 1..NumBodies
RelPrefixes == 1..NumRelPrefixes
Roots == 1..NumRoots
JobLabels == 1..NumJobs

VARIABLES
    configured,         \* urls of spack.mirror.MirrorCollection()
    remoteIndex,        \* per mirror: body of build_cache/index.json (NoBody: unreadable)
    remoteHash,         \* per mirror: content of build_cache/index.json.hash (EmptyHash: unreadable)
    initialized,        \* self._index_file_cache is not None
    local_index_cache,  \* self._local_index_cache: mirror url -> entry
    index_files,        \* files below self._index_cache_root: cache key -> body
    contents_json,      \* persisted index of indices (contents.json)
    built_spec_cache,   \* self._built_spec_cache: dag_hash -> list of entries
    prefix,             \* content of spec.prefix (NoBody: the prefix does not exist)
    mirror_spack,       \* the .spack container of the spec on the destination mirror
    mirror_specyaml,    \* the .spec.yaml of the spec on the destination mirror
    download,           \* the .spack container staged for extract_tarball
    cache_prefix_index, \* index.json and index.json.hash below a cache_prefix given to generate_package_index
    installed,          \* the files below spec.prefix, by the paths they embed, with the manifest
    contents_file,      \* contents.json on disk: "absent", "empty" (zero length) or "json"
    cdashid_files,      \* the .cdashid files on the mirrors: url -> text
    publications,       \* number of index publications on the mirrors so far
    extraction,         \* the running extract_tarball call: position and what it has checked
    indexers,           \* the running generate_package_index calls: position and local files
    last                \* observation of the most recent call (history variable)

cacheVars == <<initialized, local_index_cache, index_files, contents_json>>
netVars == <<remoteIndex, remoteHash>>
archiveVars == <<prefix, mirror_spack, mirror_specyaml, download>>
extVars == <<cdashid_files, publications, extraction, indexers>>
auxVars == <<cache_prefix_index, installed, contents_file, extVars>>
vars == <<configured, remoteIndex, remoteHash, initialized, local_index_cache,
          index_files, contents_json, built_spec_cache, prefix, mirror_spack,
          mirror_specyaml, download, cache_prefix_index, installed, last>>

\* ------------------------------------------------------------ value spaces
NoBody == 0                         \* a read that failed / a file that is absent
EmptyHash == [sha256 |-> 0]         \* fetched_hash = '' ; expect_hash = None
NoEntry == [index_hash |-> EmptyHash, index_path |-> [index |-> 0]]

\* hashlib.sha256(data).hexdigest(): injective on the bodies of the model
compute_hash(data) == [sha256 |-> data]

Hashes == {compute_hash(b) : b \in Bodies}

\* 'index_{0}.json'.format(locally_computed_hash[:10])
index_cache_key(hash) == [index |-> hash.sha256]

CacheKeys == {index_cache_key(h) : h \in Hashes}

NoFiles == [k \in CacheKeys |-> NoBody]
EmptyIndexCache == [m \in Mirrors |-> NoEntry]

CachedUrls(lic) == {m \in Mirrors : lic[m] # NoEntry}

\* checksum_tarball(file): sha256 over the bytes of the tarball
checksum_tarball(payload) == [sha256 |-> payload]

\* A .spack container: the compressed tarball, the checksum recorded in the
\* spec.yaml it carries (EmptyHash: no binary_cache_checksum), and the state
\* of the detached signature ("none", "good": verifies, "bad": does not).
Container(payload, recorded, sig) ==
    [payload |-> payload, recorded |-> recorded, sig |-> sig]
NoContainer == Container(NoBody, EmptyHash, "absent")

\* A published .spec.yaml: spec_dict['binary_cache_checksum']['hash']
\* and spec_dict['full_hash'] (NoBody: the file has no full_hash key)
SpecYaml(recorded, full_hash) ==
    [binary_cache_checksum |-> recorded, full_hash |-> full_hash]
NoSpecYaml == SpecYaml(EmptyHash, NoBody)

\* index.json and index.json.hash below a cache_prefix: <<>> when the file
\* is absent, else the one-element tuple of its content
IndexFiles(index_json, index_json_hash) ==
    [index_json |-> index_json, index_json_hash |-> index_json_hash]
NoIndexFiles == IndexFiles(<<>>, <<>>)

\* ------------------------------------------------------------- paths
\* A path is the tuple of its components.  A layout root has one or two
\* components of Roots, so that one root can lie below another.
RootPaths == {<<r>> : r \in Roots} \cup {<<r, s>> : r \in Roots, s \in Roots}

\* os.path.relpath(prefix, layout.root) of the spec under projection p, and
\* of the dependency with dag hash h
RelPath(p) == <<NumRoots + p>>
DepRelPath(h) == <<NumRoots + NumRelPrefixes + h>>

\* a path made relative by make_package_relative: it names no prefix
RelativeRef == <<0>>

IsPrefix(old, path) ==
    Len(old) <= Len(path) /\ SubSeq(path, 1, Len(old)) = old

\* The files of an installed prefix by the one path each embeds: a text
\* file, a binary and a link the manifest lists for relocation, and a file
\* it does not list.
Files(text, binary, link, other) ==
    [text |-> text, binary |-> binary, link |-> link, other |-> other]

Installed(present, buildinfo, layout, files, runs) ==
    [present |-> present, buildinfo |-> buildinfo, layout |-> layout,
     files |-> files, runs |-> runs]

NotInstalled ==
    Installed(FALSE, <<>>, <<>>, Files(<<>>, <<>>, <<>>, <<>>), 0)

\* extract_tarball by steps: pc is the position of the call, verified and
\* checksummed tell whether Gpg.verify and the checksum comparison have
\* succeeded in this call, wrote whether it has written under spec.prefix
Extraction(pc, unsigned, force, fault, verified, checksummed, wrote) ==
    [pc |-> pc, unsigned |-> unsigned, force |-> force, fault |-> fault,
     verified |-> verified, checksummed |-> checksummed, wrote |-> wrote]
NoExtraction == Extraction("idle", FALSE, FALSE, "none", FALSE, FALSE, FALSE)

\* A job running generate_package_index: its position ("idle": not in the
\* call, "indexed": index.json and index.json.hash written below its tmpdir,
\* "pushed_index": index.json pushed) and the two local files
Indexers == 1..NumIndexers
Indexer(pc, index_string, index_hash) ==
    [pc |-> pc, index_string |-> index_string, index_hash |-> index_hash]
IdleIndexer == Indexer("idle", {}, EmptyHash)

\* no generate_package_index call is running
NoIndexers == [p \in Indexers |-> IdleIndexer]

ArchivesIdle ==
    /\ installed = NotInstalled
    /\ cdashid_files = [u \in {} |-> <<>>]
    /\ publications = 0
    /\ extraction = NoExtraction
    /\ indexers = NoIndexers
    /\ contents_file = "absent"
    /\ cache_prefix_index = NoIndexFiles
    /\ prefix = NoBody
    /\ mirror_spack = NoContainer
    /\ mirror_specyaml = NoSpecYaml
    /\ download = NoContainer

\* A concrete spec, as far as the caches tell specs apart.
Spec(d, f) == [dag_hash |-> d, full_hash |-> f]
NoSpec == Spec(NoBody, NoBody)

\* ------------------------------------------------ fetch_and_cache_index
\* web_util.read_from_url(hash_fetch_url): '' when the read raises
ReadHashFile(net, mirror_url) == net.hash[mirror_url]

\* web_util.read_from_url(index_fetch_url): NoBody when the read raises
ReadIndexFile(net, mirror_url) == net.index[mirror_url]

\* the test as it would be if any expected hash ended the call
ExpectedHashSeen_Any(expect_hash, fetched_hash) == expect_hash # EmptyHash

\* the test as it would be if the index were fetched in every call
ExpectedHashSeen_Never(expect_hash, fetched_hash) == FALSE

\* "if expect_hash and fetched_hash == expect_hash"
ExpectedHashSeen(expect_hash, fetched_hash) ==
    expect_hash # EmptyHash /\ fetched_hash = expect_hash

\* the check as it would be if the comparison were left out
DigestAccepted_Always(locally_computed_hash, fetched_hash) == TRUE

\* "if locally_computed_hash != fetched_hash: ... return"
DigestAccepted(locally_computed_hash, fetched_hash) ==
    locally_computed_hash = fetched_hash

\* Result of one call: the new cache and files, whether the index body was
\* requested, and whether the call raised.
FetchResult(lic, files, body, raised) ==
    [lic |-> lic, files |-> files, body |-> body, raised |-> raised]

\* the handler as it would be if it also dropped the mirror's entry
IndexReadFailed_DropsEntry(lic, files, mirror_url) ==
    FetchResult([lic EXCEPT ![mirror_url] = NoEntry], files, TRUE, FALSE)

\* "except (URLError, web_util.SpackWebError) ...: tty.debug(...); return"
IndexReadFailed(lic, files, mirror_url) ==
    FetchResult(lic, files, TRUE, FALSE)

fetch_and_cache_index(lic, files, inited, net, mirror_url, expect_hash) ==
    LET fetched_hash == ReadHashFile(net, mirror_url) IN
    IF ExpectedHashSeen(expect_hash, fetched_hash)
    THEN FetchResult(lic, files, FALSE, FALSE)
    ELSE
      LET index_object_str == ReadIndexFile(net, mirror_url) IN
      IF index_object_str = NoBody
      THEN IndexReadFailed(lic, files, mirror_url)
      ELSE
        LET locally_computed_hash == compute_hash(index_object_str)
            cache_key == index_cache_key(locally_computed_hash)
        IN
        IF ~DigestAccepted(locally_computed_hash, fetched_hash)
        THEN FetchResult(lic, files, TRUE, FALSE)
        ELSE IF ~inited
        THEN \* self._index_file_cache is None: AttributeError
             FetchResult(lic, files, TRUE, TRUE)
        ELSE FetchResult(
               [lic EXCEPT ![mirror_url] =
                   [index_hash |-> locally_computed_hash,
                    index_path |-> cache_key]],
               [files EXCEPT ![cache_key] = index_object_str],
               TRUE, FALSE)

\* ---------------------------------------------- update_local_index_cache
\* State threaded through the loops of update_local_index_cache.
Pass(lic, files, bodies, removed, created) ==
    [lic |-> lic, files |-> files, bodies |-> bodies,
     removed |-> removed, created |-> created]

\* (the one-element sets bind a result that is used several times)
Noted(p, r, mirror_url) ==
    Pass(r.lic, r.files,
         IF r.body THEN p.bodies \cup {mirror_url} ELSE p.bodies,
         p.removed,
         IF p.lic[mirror_url] = NoEntry /\ r.lic[mirror_url] # NoEntry
         THEN p.created \cup {mirror_url} ELSE p.created)

FetchInto(p, net, mirror_url, expect_hash) ==
    CHOOSE q \in {Noted(p, r, mirror_url) :
                    r \in {fetch_and_cache_index(p.lic, p.files, TRUE, net,
                                                 mirror_url, expect_hash)}} :
        TRUE

\* first loop: "for cached_mirror_url in self._local_index_cache",
\* the branch "if cached_mirror_url in configured_mirror_urls"
RECURSIVE RefreshCached(_, _, _, _, _)
RefreshCached(p, cachedAtStart, conf, net, m) ==
    IF m > NumMirrors THEN p
    ELSE RefreshCached(
           IF m \in cachedAtStart /\ m \in conf
           THEN FetchInto(p, net, m, p.lic[m].index_hash)
           ELSE p,
           cachedAtStart, conf, net, m + 1)

\* the list as it would be if unconfigured mirrors were never collected
ItemsToRemove_None(lic, conf) == {}

\* first loop, the else branch: items_to_remove
ItemsToRemove(lic, conf) == {m \in CachedUrls(lic) : m \notin conf}

\* second loop: self._index_file_cache.remove(cache_key); del cache[url]
RECURSIVE RemoveItems(_, _, _)
RemoveItems(p, items, m) ==
    IF m > NumMirrors THEN p
    ELSE RemoveItems(
           IF m \in items
           THEN Pass([p.lic EXCEPT ![m] = NoEntry],
                     [p.files EXCEPT ![p.lic[m].index_path] = NoBody],
                     p.bodies, p.removed \cup {m}, p.created)
           ELSE p,
           items, m + 1)

\* third loop: "for mirror_url in configured_mirror_urls:
\*                 if mirror_url not in self._local_index_cache"
RECURSIVE FetchMissing(_, _, _, _)
FetchMissing(p, conf, net, m) ==
    IF m > NumMirrors THEN p
    ELSE FetchMissing(
           IF m \in conf /\ p.lic[m] = NoEntry
           THEN FetchInto(p, net, m, EmptyHash)
           ELSE p,
           conf, net, m + 1)

update_local_index_cache(lic, files, conf, net) ==
    LET items == ItemsToRemove(lic, conf)
        p1 == RefreshCached(Pass(lic, files, {}, {}, {}), CachedUrls(lic), conf, net, 1)
        p2 == RemoveItems(p1, items, 1)
    IN FetchMissing(p2, conf, net, 1)

\* _init_local_index_cache: one time initialisation from contents.json
InitLocalIndexCache(inited, lic, persisted) ==
    IF inited THEN lic ELSE persisted

Net == [index |-> remoteIndex, hash |-> remoteHash]

\* urls: the fetch_url of a mirror, the tarball below its build_cache
\* directory (url_util.join(mirror.fetch_url, 'build_cache', tarball)), and
\* the absent url argument
FetchUrl(m) == [mirror |-> m, path |-> "root"]
TarballUrl(m) == [mirror |-> m, path |-> "tarball"]
NoUrl == [mirror |-> 0, path |-> "none"]

\* ------------------------------------------------------------- actions
\* `last` records the most recent call: its arguments, what it touched and
\* how it ended.  Fields a call does not use keep the values given here.
Observed(op) == [op |-> op, mirror |-> 0, expect |-> EmptyHash,
                 bodies |-> {}, removed |-> {}, created |-> {},
                 raised |-> FALSE,
                 force |-> FALSE, unsigned |-> FALSE, fault |-> "none",
                 outcome |-> "", pushed |-> {}, existed |-> {},
                 prior |-> NoBody, before |-> "",
                 spec |-> NoSpec, full_hash_match |-> FALSE,
                 found_list |-> <<>>, results |-> <<>>, probed |-> {},
                 rebuild_on_errors |-> FALSE, returned |-> FALSE,
                 tmpdir |-> FALSE, unpacked |-> FALSE,
                 buildinfo |-> <<>>, layout |-> <<>>, relocated |-> FALSE,
                 gpg |-> FALSE, key |-> 0, keys |-> {}, signed_with |-> 0,
                 specs |-> {}, prefix_to_prefix |-> <<>>,
                 url |-> NoUrl, serving |-> {}, fetched |-> <<>>,
                 from |-> NoUrl,
                 children |-> <<>>, roots |-> {}, spec_labels |-> {},
                 deps |-> <<>>, stages |-> <<>>,
                 cdashid |-> <<>>, value |-> 0]

\* the configuration gains or loses a mirror
AddMirror(m) ==
    /\ m \notin configured
    /\ configured' = configured \cup {m}
    /\ last' = Observed("env")
    /\ UNCHANGED <<netVars, cacheVars, built_spec_cache, archiveVars,
                   auxVars>>

RemoveMirror(m) ==
    /\ m \in configured
    /\ configured' = configured \ {m}
    /\ last' = Observed("env")
    /\ UNCHANGED <<netVars, cacheVars, built_spec_cache, archiveVars,
                   auxVars>>

\* update_local_index_cache() while the mirrors serve net
UpdateWith(net) ==
    \E p \in {update_local_index_cache(
                 InitLocalIndexCache(initialized, local_index_cache,
                                     contents_json),
                 index_files, configured, net)} :
       /\ initialized' = TRUE
       /\ local_index_cache' = p.lic
       /\ index_files' = p.files
       /\ contents_json' = p.lic        \* _write_local_index_cache
       /\ contents_file' = "json"
       /\ last' = [Observed("update") EXCEPT !.bodies = p.bodies,
                                             !.removed = p.removed,
                                             !.created = p.created]
       /\ UNCHANGED <<extVars, cache_prefix_index, installed, configured,
                      built_spec_cache, archiveVars>>

UpdateLocalIndexCache ==
    /\ UpdateWith(Net)
    /\ UNCHANGED netVars

\* update_local_index_cache() at a time when every configured mirror is
\* reachable and serves the index `served` with the matching hash file
UpdateLocalIndexCacheServing(served) ==
    /\ remoteIndex' = [m \in Mirrors |->
                          IF m \in configured THEN served[m]
                          ELSE remoteIndex[m]]
    /\ remoteHash' = [m \in Mirrors |-> compute_hash(remoteIndex'[m])]
    /\ UpdateWith([index |-> remoteIndex', hash |-> remoteHash'])

\* contents.json as it would be if the method ended by writing the cache
PersistedAfterFetch_Written(lic, persisted) == lic
\* contents.json after fetch_and_cache_index, which assigns
\* self._local_index_cache[mirror_url] and has no call of
\* _write_local_index_cache
PersistedAfterFetch(lic, persisted) == persisted

\* a direct call of the public method fetch_and_cache_index
FetchAndCacheIndex(m, expect_hash) ==
    \E r \in {fetch_and_cache_index(local_index_cache, index_files,
                                    initialized, Net, m, expect_hash)} :
       /\ local_index_cache' = r.lic
       /\ index_files' = r.files
       /\ last' = [Observed("fetch") EXCEPT
                       !.mirror = m, !.expect = expect_hash,
                       !.bodies = IF r.body THEN {m} ELSE {},
                       !.raised = r.raised]
       /\ contents_json' = PersistedAfterFetch(r.lic, contents_json)
       /\ UNCHANGED <<auxVars, configured, netVars, initialized,
                      built_spec_cache, archiveVars>>

\* index.json of a mirror changes, or becomes unreadable (NoBody)
SetRemoteIndex(m, b) ==
    /\ remoteIndex[m] # b
    /\ remoteIndex' = [remoteIndex EXCEPT ![m] = b]
    /\ last' = Observed("env")
    /\ UNCHANGED <<auxVars, configured, remoteHash, cacheVars, built_spec_cache, archiveVars>>

\* index.json.hash of a mirror changes, or becomes unreadable (EmptyHash)
SetRemoteHash(m, h) ==
    /\ remoteHash[m] # h
    /\ remoteHash' = [remoteHash EXCEPT ![m] = h]
    /\ last' = Observed("env")
    /\ UNCHANGED <<auxVars, configured, remoteIndex, cacheVars, built_spec_cache, archiveVars>>

\* ------------------------------------------------- reconciliation spec
\* Every mirror is reachable and serves an index matching its hash file.
InitReconcile ==
    /\ configured \in SUBSET Mirrors
    /\ remoteIndex \in [Mirrors -> Bodies]
    /\ remoteHash = [m \in Mirrors |-> compute_hash(remoteIndex[m])]
    /\ initialized = FALSE
    /\ local_index_cache = EmptyIndexCache
    /\ index_files = NoFiles
    /\ contents_json = EmptyIndexCache
    /\ built_spec_cache = <<>>
    /\ ArchivesIdle
    /\ last = Observed("init")

NextReconcile ==
    \/ \E m \in Mirrors : AddMirror(m)
    \/ \E m \in Mirrors : RemoveMirror(m)
    \/ \E served \in [configured -> Bodies] :
          UpdateLocalIndexCacheServing(served)

SpecReconcile == InitReconcile /\ [][NextReconcile]_vars

\* --------------------------------------------------------- fetch spec
\* The mirrors of FaultyMirrors are configured; their index and hash file
\* change independently and either read can fail.
InitFetch ==
    /\ configured = FaultyMirrors
    /\ remoteIndex = [m \in Mirrors |-> NoBody]
    /\ remoteHash = [m \in Mirrors |-> EmptyHash]
    /\ initialized = FALSE
    /\ local_index_cache = EmptyIndexCache
    /\ index_files = NoFiles
    /\ contents_json = EmptyIndexCache
    /\ built_spec_cache = <<>>
    /\ ArchivesIdle
    /\ last = Observed("init")

NextFetch ==
    \/ \E m \in FaultyMirrors, b \in Bodies \cup {NoBody} : SetRemoteIndex(m, b)
    \/ \E m \in FaultyMirrors, h \in Hashes \cup {EmptyHash} : SetRemoteHash(m, h)
    \/ \E m \in FaultyMirrors, e \in Hashes \cup {EmptyHash} :
          FetchAndCacheIndex(m, e)
    \/ UpdateLocalIndexCache

SpecFetch == InitFetch /\ [][NextFetch]_vars

\* ========================================================== spec cache
\* db._read_from_file + db.query_local: the specs an index body lists.
\* Body b lists the dag hashes 1..b; bodies differ in the full hashes.
IndexSpecs(body) ==
    [d \in 1..body |-> Spec(d, ((body + d) % NumFullHashes) + 1)]

CacheEntry(mirror_url, spec) == [mirror_url |-> mirror_url, spec |-> spec]

\* self._built_spec_cache[dag_hash], <<>> when the key is absent
Record(bsc, d) == IF d \in DOMAIN bsc THEN bsc[d] ELSE <<>>

\* self._built_spec_cache[dag_hash] = list
WithRecord(bsc, d, list) ==
    [x \in DOMAIN bsc \cup {d} |-> IF x = d THEN list ELSE bsc[x]]

\* the loop over spec_list in _associate_built_specs_with_mirror
RECURSIVE AppendSpecs(_, _, _, _)
AppendSpecs(bsc, spec_list, mirror_url, i) ==
    IF i > Len(spec_list) THEN bsc
    ELSE AppendSpecs(
             WithRecord(bsc, spec_list[i].dag_hash,
                        Append(Record(bsc, spec_list[i].dag_hash),
                               CacheEntry(mirror_url, spec_list[i]))),
             spec_list, mirror_url, i + 1)

\* _associate_built_specs_with_mirror(cache_key, mirror_url); reading a
\* cache file that does not exist raises
associate_built_specs_with_mirror(bsc, files, cache_key, mirror_url) ==
    IF files[cache_key] = NoBody
    THEN [bsc |-> bsc, raised |-> TRUE]
    ELSE [bsc |-> AppendSpecs(bsc, IndexSpecs(files[cache_key]),
                              mirror_url, 1),
          raised |-> FALSE]

\* regenerate_spec_cache: the loop over self._local_index_cache from m on
RECURSIVE regenerate_spec_cache(_, _, _, _)
regenerate_spec_cache(bsc, lic, files, m) ==
    IF m > NumMirrors THEN [bsc |-> bsc, raised |-> FALSE]
    ELSE IF lic[m] = NoEntry
    THEN regenerate_spec_cache(bsc, lic, files, m + 1)
    ELSE LET r == associate_built_specs_with_mirror(
                      bsc, files, lic[m].index_path, m)
         IN IF r.raised THEN r
            ELSE regenerate_spec_cache(r.bsc, lic, files, m + 1)

\* Python None; like the empty list it is false in a condition
None == <<>>

find_built_spec(bsc, spec) ==
    IF spec.dag_hash \notin DOMAIN bsc THEN None ELSE bsc[spec.dag_hash]

\* position of the first entry of current_list for mirror_url, 0 if none
FirstFor(current_list, mirror_url) ==
    IF \E i \in 1..Len(current_list) : current_list[i].mirror_url = mirror_url
    THEN CHOOSE i \in 1..Len(current_list) :
            /\ current_list[i].mirror_url = mirror_url
            /\ \A j \in 1..(i - 1) : current_list[j].mirror_url # mirror_url
    ELSE 0

\* the loop of update_spec over found_list; assigning to the append
\* attribute of a list raises AttributeError
RECURSIVE UpdateEntries(_, _, _)
UpdateEntries(current_list, found_list, i) ==
    IF i > Len(found_list) THEN [list |-> current_list, raised |-> FALSE]
    ELSE LET k == FirstFor(current_list, found_list[i].mirror_url)
         IN IF k = 0 THEN [list |-> current_list, raised |-> TRUE]
            ELSE UpdateEntries(
                     [current_list EXCEPT ![k].spec = found_list[i].spec],
                     found_list, i + 1)

update_spec(bsc, spec, found_list) ==
    IF spec.dag_hash \notin DOMAIN bsc
    THEN [bsc |-> WithRecord(bsc, spec.dag_hash, found_list),
          raised |-> FALSE]
    ELSE LET r == UpdateEntries(bsc[spec.dag_hash], found_list, 1)
         IN [bsc |-> WithRecord(bsc, spec.dag_hash, r.list),
             raised |-> r.raised]

\* the full hash of a fetched spec as it would be taken if never compared
FullHashAccepted_Any(lenient, fetched_full_hash, full_hash) == TRUE
\* "lenient or fetched_spec.full_hash() == spec.full_hash()"
FullHashAccepted(lenient, fetched_full_hash, full_hash) ==
    lenient \/ fetched_full_hash = full_hash

\* try_direct_fetch: the loop over the configured mirrors from m on, where
\* served[m] is the full hash in the .spec.yaml mirror m serves for the
\* spec (NoBody: the read fails)
RECURSIVE try_direct_fetch(_, _, _, _, _)
try_direct_fetch(spec, conf, served, full_hash_match, m) ==
    IF m > NumMirrors THEN <<>>
    ELSE LET rest == try_direct_fetch(spec, conf, served, full_hash_match,
                                      m + 1)
             lenient == ~full_hash_match
         IN IF m \notin conf \/ served[m] = NoBody THEN rest
            ELSE IF FullHashAccepted(lenient, served[m], spec.full_hash)
            THEN <<CacheEntry(m, Spec(spec.dag_hash, served[m]))>> \o rest
            ELSE rest

\* the nested filter_candidates of get_spec has no return statement
filter_candidates(spec, possibles, lenient) == None

GetResult(results, bsc, probed, raised) ==
    [results |-> results, bsc |-> bsc, probed |-> probed, raised |-> raised]

get_spec(bsc, conf, served, spec, full_hash_match) ==
    IF conf = {} THEN GetResult(<<>>, bsc, {}, FALSE)
    ELSE LET lenient == ~full_hash_match
             candidates == find_built_spec(bsc, spec)
             results == IF candidates # <<>>
                        THEN filter_candidates(spec, candidates, lenient)
                        ELSE <<>>
             fetched == try_direct_fetch(spec, conf, served,
                                         full_hash_match, 1)
             u == update_spec(bsc, spec, fetched)
         IN IF results # <<>> THEN GetResult(results, bsc, {}, FALSE)
            ELSE IF fetched = <<>> THEN GetResult(fetched, bsc, conf, FALSE)
            ELSE GetResult(fetched, u.bsc, conf, u.raised)

RegenerateSpecCache ==
    \E lic \in {InitLocalIndexCache(initialized, local_index_cache,
                                    contents_json)} :
      \E r \in {regenerate_spec_cache(built_spec_cache, lic, index_files, 1)} :
        /\ \A d \in DOMAIN r.bsc : Len(r.bsc[d]) <= MaxRecordLen
        /\ initialized' = TRUE
        /\ local_index_cache' = lic
        /\ built_spec_cache' = r.bsc
        /\ last' = [Observed("regen") EXCEPT !.raised = r.raised]
        /\ UNCHANGED <<auxVars, configured, netVars, index_files, contents_json,
                       archiveVars>>

\* get_spec(spec, force, full_hash_match) while the mirrors serve `served`
GetSpec(spec, full_hash_match, served) ==
    \E r \in {get_spec(built_spec_cache, configured, served, spec,
                       full_hash_match)} :
       /\ built_spec_cache' = r.bsc
       /\ last' = [Observed("get_spec") EXCEPT
                       !.spec = spec, !.full_hash_match = full_hash_match,
                       !.results = r.results, !.probed = r.probed,
                       !.raised = r.raised]
       /\ UNCHANGED <<auxVars, configured, netVars, cacheVars, archiveVars>>

\* a direct call of the public method update_spec
UpdateSpec(spec, found_list) ==
    \E r \in {update_spec(built_spec_cache, spec, found_list)} :
       /\ built_spec_cache' = r.bsc
       /\ last' = [Observed("update_spec") EXCEPT
                       !.spec = spec, !.found_list = found_list,
                       !.raised = r.raised]
       /\ UNCHANGED <<auxVars, configured, netVars, cacheVars, archiveVars>>

\* get_all_built_specs: the first spec of every non-empty record
get_all_built_specs(bsc) ==
    {bsc[d][1].spec : d \in {x \in DOMAIN bsc : Len(bsc[x]) > 0}}

\* a direct call of the public method find_built_spec
FindBuiltSpec(spec) ==
    /\ last' = [Observed("find_built_spec") EXCEPT
                    !.spec = spec,
                    !.results = find_built_spec(built_spec_cache, spec)]
    /\ UNCHANGED <<auxVars, configured, netVars, cacheVars, built_spec_cache,
                   archiveVars>>

\* a direct call of the public method get_all_built_specs
GetAllBuiltSpecs ==
    /\ last' = [Observed("get_all_built_specs") EXCEPT
                    !.specs = get_all_built_specs(built_spec_cache)]
    /\ UNCHANGED <<auxVars, configured, netVars, cacheVars, built_spec_cache,
                   archiveVars>>

\* ---------------------------------------------------- regeneration spec
\* Any set of mirrors is configured; update_local_index_cache and
\* regenerate_spec_cache are called at any time, in any order.
NextRegen ==
    \/ \E served \in [configured -> Bodies] :
          UpdateLocalIndexCacheServing(served)
    \/ RegenerateSpecCache

SpecRegen == InitReconcile /\ [][NextRegen]_vars

\* ---------------------------------------------------------- lookup spec
\* One dag hash is looked up on the mirrors of ProbeMirrors, which serve
\* its .spec.yaml with any full hash or not at all.
QueryDag == CHOOSE d \in DagHashes : TRUE
Served == [ProbeMirrors -> FullHashes \cup {NoBody}]
FoundLists == {try_direct_fetch(Spec(QueryDag, f), ProbeMirrors, served,
                                FALSE, 1) :
                   f \in FullHashes, served \in Served} \ {<<>>}

InitFind ==
    /\ configured \in SUBSET ProbeMirrors
    /\ remoteIndex = [m \in Mirrors |-> NoBody]
    /\ remoteHash = [m \in Mirrors |-> EmptyHash]
    /\ initialized = FALSE
    /\ local_index_cache = EmptyIndexCache
    /\ index_files = NoFiles
    /\ contents_json = EmptyIndexCache
    /\ built_spec_cache = <<>>
    /\ ArchivesIdle
    /\ last = Observed("init")

NextFind ==
    \/ \E m \in ProbeMirrors : AddMirror(m)
    \/ \E m \in ProbeMirrors : RemoveMirror(m)
    \/ \E f \in FullHashes, full_hash_match \in BOOLEAN, served \in Served :
          GetSpec(Spec(QueryDag, f), full_hash_match, served)
    \/ \E f \in FullHashes, found_list \in FoundLists :
          UpdateSpec(Spec(QueryDag, f), found_list)

SpecFind == InitFind /\ [][NextFind]_vars

\* The same lookups where the spec cache is written by get_spec alone.
NextLookup ==
    \/ \E m \in ProbeMirrors : AddMirror(m)
    \/ \E m \in ProbeMirrors : RemoveMirror(m)
    \/ \E f \in FullHashes, full_hash_match \in BOOLEAN, served \in Served :
          GetSpec(Spec(QueryDag, f), full_hash_match, served)

SpecLookup == InitFind /\ [][NextLookup]_vars

\* ============================================================ archives
\* The mirror given as outdir to build_tarball.
DestMirror == CHOOSE m \in Mirrors : TRUE

\* The concrete spec given to build_tarball and extract_tarball.
BuiltSpec == Spec(QueryDag, CHOOSE f \in FullHashes : TRUE)

\* The index.json that generate_package_index writes when the mirror holds
\* the .spec.yaml of the built spec.
IndexOfBuiltSpec == CHOOSE b \in Bodies : TRUE

BuildFaults == {"none", "reloc", "sign", "push_spack", "push_specyaml",
                "push_index", "push_index_hash"}
ExtractFaults == {"none", "unreadable", "unpack", "reloc"}
\* generate_package_index(cache_prefix): list the .yaml files, write the
\* index, push index.json, then push index.json.hash
generate_package_index(index, hash, fault) ==
    IF fault = "push_index"
    THEN [index |-> index, hash |-> hash, raised |-> TRUE]
    ELSE IF fault = "push_index_hash"
    THEN [index |-> IndexOfBuiltSpec, hash |-> hash, raised |-> TRUE]
    ELSE [index |-> IndexOfBuiltSpec,
          hash |-> compute_hash(IndexOfBuiltSpec), raised |-> FALSE]

\* tarball_name(spec, ext): architecture, compiler, name and version are
\* those of the one package of the model; the dag hash and the extension
\* tell the names apart
tarball_name(spec, ext) == <<"pkg", spec.dag_hash, ext>>

\* build_cache_prefix(prefix): the build_cache directory below a path or
\* url, which is a sequence of components
build_cache_prefix(path) == Append(path, "build_cache")

\* os.path.relpath(path, start) for a path below start
relpath(path, start) == SubSeq(path, Len(start) + 1, Len(path))

\* the stage directory of one build_tarball call
BuildTmpdir == <<"tmp", "stage">>

\* remote_specfile_path of build_tarball: outdir joined with the position
\* of the local spec file relative to tmpdir
RemoteSpecfilePath(spec, outdir) ==
    outdir \o relpath(Append(build_cache_prefix(BuildTmpdir),
                             tarball_name(spec, ".spec.yaml")),
                      BuildTmpdir)

\* the key as it would be if no full hash were recorded
RecordedFullHash_None(spec) == NoBody
\* spec_dict['full_hash'] = spec.full_hash()
RecordedFullHash(spec) == spec.full_hash

BuildResult(spack, specyaml, gen, pushed, outcome, tmpdir) ==
    [spack |-> spack, specyaml |-> specyaml, index |-> gen.index,
     hash |-> gen.hash, pushed |-> pushed, outcome |-> outcome,
     tmpdir |-> tmpdir]

\* the test as it would be if force were always taken as given
OverwriteRefused_Never(exists, force) == FALSE
\* url_exists(...) and not force: the destination is not overwritten
OverwriteRefused(exists, force) == exists /\ ~force

\* the step as it would be if its exception were swallowed
RelocatabilityFails_Never(fault) == FALSE
\* make_package_relative or check_package_relocatable raises
RelocatabilityFails(fault) == fault = "reloc"

\* build_tarball(spec, outdir, force, rel, unsigned, allow_root, key,
\*               regenerate_index) for a spec installed with content payload
build_tarball(payload, dest, force, unsigned, regenerate_index, fault) ==
    LET spack == dest.spack
        specyaml == dest.specyaml
        kept == [index |-> dest.index, hash |-> dest.hash]
        \* web_util.remove_url of what exists, under force
        spack1 == IF spack # NoContainer /\ force THEN NoContainer ELSE spack
        yaml1 == IF specyaml # NoSpecYaml /\ force THEN NoSpecYaml
                 ELSE specyaml
        checksum == checksum_tarball(payload)
        new_spack == Container(payload, checksum,
                               IF unsigned THEN "none" ELSE "good")
        new_yaml == SpecYaml(checksum, RecordedFullHash(BuiltSpec))
        gen == generate_package_index(dest.index, dest.hash, fault)
    IN IF OverwriteRefused(spack # NoContainer, force)
       THEN BuildResult(spack, specyaml, kept, {},
                        "NoOverwriteException", TRUE)
       ELSE IF OverwriteRefused(specyaml # NoSpecYaml, force)
       THEN BuildResult(spack1, specyaml, kept, {},
                        "NoOverwriteException", TRUE)
       ELSE IF RelocatabilityFails(fault)
       THEN BuildResult(spack1, yaml1, kept, {}, "SystemExit", FALSE)
       ELSE IF fault = "sign" /\ ~unsigned
       THEN BuildResult(spack1, yaml1, kept, {}, "SignError", TRUE)
       ELSE IF fault = "push_spack"
       THEN BuildResult(spack1, yaml1, kept, {}, "PushError", TRUE)
       ELSE IF fault = "push_specyaml"
       THEN BuildResult(new_spack, yaml1, kept, {"spack"},
                        "PushError", TRUE)
       ELSE IF regenerate_index
       THEN BuildResult(new_spack, new_yaml, gen, {"spack", "specyaml"},
                        IF gen.raised THEN "IndexError" ELSE "ok", FALSE)
       ELSE BuildResult(new_spack, new_yaml, kept, {"spack", "specyaml"},
                        "ok", FALSE)

\* spec.prefix while tar.extractall(spec.prefix) has written a part of it
PartialInstall == -1

\* tmpdir: the temp directory of the call still exists when it ends;
\* unpacked: the call has written under spec.prefix
ExtractResult(pfx, dl, outcome, tmpdir, unpacked) ==
    [prefix |-> pfx, download |-> dl, outcome |-> outcome,
     tmpdir |-> tmpdir, unpacked |-> unpacked]

\* the handler as it would be if it left the unpacked files in place
RelocateFailed_KeepsPrefix(unpacked_prefix) == unpacked_prefix
\* "except Exception as e: shutil.rmtree(spec.prefix)": the prefix afterwards
RelocateFailed(unpacked_prefix) == NoBody

\* the signature step as it would be if a missing .asc were let through
SignatureMissing_Ignored(unsigned, sig) == FALSE
\* "if not unsigned" and no '%s.asc' % specfile_path in the container
SignatureMissing(unsigned, sig) == ~unsigned /\ sig = "none"

\* bchecksum['hash'] != checksum
ChecksumDiffers(recorded, checksum) == recorded # checksum

\* extract_tarball(spec, filename, allow_root, unsigned, force) with the
\* staged container dl and spec.prefix holding pfx
extract_tarball(pfx, dl, unsigned, force, fault) ==
    LET pfx1 == IF pfx # NoBody /\ force THEN NoBody ELSE pfx
    IN IF pfx # NoBody /\ ~force
       THEN ExtractResult(pfx, dl, "NoOverwriteException", FALSE, FALSE)
       ELSE IF fault = "unreadable"
       THEN ExtractResult(pfx1, dl, "ReadError", TRUE, FALSE)
       ELSE IF SignatureMissing(unsigned, dl.sig)
       THEN ExtractResult(pfx1, dl, "NoVerifyException", FALSE, FALSE)
       ELSE IF ~unsigned /\ dl.sig = "bad"
       THEN ExtractResult(pfx1, dl, "VerifyError", FALSE, FALSE)
       ELSE IF dl.recorded = EmptyHash
       THEN ExtractResult(pfx1, dl, "KeyError", TRUE, FALSE)
       ELSE IF ChecksumDiffers(dl.recorded, checksum_tarball(dl.payload))
       THEN ExtractResult(pfx1, dl, "NoChecksumException", FALSE, FALSE)
       ELSE IF fault = "unpack"
       THEN ExtractResult(PartialInstall, dl, "UnpackError", TRUE, TRUE)
       ELSE IF fault = "reloc"
       THEN ExtractResult(RelocateFailed(dl.payload), NoContainer,
                          "RelocateError", FALSE, TRUE)
       ELSE ExtractResult(dl.payload, NoContainer, "ok", FALSE, TRUE)

\* the package is installed from source, rebuilt, or uninstalled
SetPrefix(v) ==
    /\ prefix # v
    /\ prefix' = v
    /\ last' = Observed("env")
    /\ UNCHANGED <<auxVars, configured, netVars, cacheVars, built_spec_cache,
                   mirror_spack, mirror_specyaml, download>>

\* what outdir holds for the spec, and its index
Destination == [spack |-> mirror_spack, specyaml |-> mirror_specyaml,
                index |-> remoteIndex[DestMirror],
                hash |-> remoteHash[DestMirror]]

BuildTarball(force, unsigned, regenerate_index, fault) ==
    /\ prefix \in Payloads
    /\ \E r \in {build_tarball(prefix, Destination, force, unsigned,
                                regenerate_index, fault)} :
          /\ mirror_spack' = r.spack
          /\ mirror_specyaml' = r.specyaml
          /\ remoteIndex' = [remoteIndex EXCEPT ![DestMirror] = r.index]
          /\ remoteHash' = [remoteHash EXCEPT ![DestMirror] = r.hash]
          /\ last' = [Observed("build") EXCEPT
                          !.force = force, !.unsigned = unsigned,
                          !.fault = fault, !.outcome = r.outcome,
                          !.pushed = r.pushed, !.tmpdir = r.tmpdir,
                          !.existed =
                              (IF mirror_spack # NoContainer
                               THEN {"spack"} ELSE {})
                              \cup (IF mirror_specyaml # NoSpecYaml
                                    THEN {"specyaml"} ELSE {}),
                          !.prior = mirror_spack.payload,
                          !.before = IF last.op = "build"
                                     THEN last.outcome ELSE ""]
    /\ UNCHANGED <<auxVars, configured, cacheVars, built_spec_cache, prefix, download>>

\* download_tarball: the published container is staged locally
DownloadTarball ==
    /\ mirror_spack # NoContainer
    /\ download # mirror_spack
    /\ download' = mirror_spack
    /\ last' = Observed("env")
    /\ UNCHANGED <<auxVars, configured, netVars, cacheVars, built_spec_cache, prefix,
                   mirror_spack, mirror_specyaml>>

\* the tarball inside the staged container is altered after publication
TamperPayload(v) ==
    /\ download # NoContainer
    /\ download.payload # v
    /\ download' = [download EXCEPT !.payload = v]
    /\ last' = Observed("env")
    /\ UNCHANGED <<auxVars, configured, netVars, cacheVars, built_spec_cache, prefix,
                   mirror_spack, mirror_specyaml>>

\* the spec.yaml inside the staged container is altered: a signature made
\* over the original no longer verifies
TamperSpecfile(h) ==
    /\ download # NoContainer
    /\ download.recorded # h
    /\ download' = [download EXCEPT
                        !.recorded = h,
                        !.sig = IF @ = "good" THEN "bad" ELSE @]
    /\ last' = Observed("env")
    /\ UNCHANGED <<auxVars, configured, netVars, cacheVars, built_spec_cache, prefix,
                   mirror_spack, mirror_specyaml>>

ExtractTarball(unsigned, force, fault) ==
    /\ download # NoContainer
    /\ \E r \in {extract_tarball(prefix, download, unsigned, force, fault)} :
          /\ prefix' = r.prefix
          /\ download' = r.download
          /\ last' = [Observed("extract") EXCEPT
                          !.force = force, !.unsigned = unsigned,
                          !.fault = fault, !.outcome = r.outcome,
                          !.tmpdir = r.tmpdir, !.unpacked = r.unpacked,
                          !.existed = IF prefix # NoBody THEN {"prefix"}
                                      ELSE {},
                          !.prior = prefix]
    /\ UNCHANGED <<auxVars, configured, netVars, cacheVars, built_spec_cache,
                   mirror_spack, mirror_specyaml>>

\* the read of the remote .spec.yaml in needs_rebuild: "error" when it
\* raises URLError or SpackWebError, "empty" when it returns nothing
ReadFaults == {"none", "url_error", "empty"}
ReadSpecYaml(specyaml, fault) ==
    IF fault = "url_error" \/ specyaml = NoSpecYaml THEN "error"
    ELSE IF fault = "empty" THEN "empty"
    ELSE "read"

\* "'full_hash' not in spec_yaml or spec_yaml['full_hash'] != pkg_full_hash"
FullHashStale_Never(specyaml, pkg_full_hash) == FALSE
FullHashStale(specyaml, pkg_full_hash) ==
    specyaml.full_hash = NoBody \/ specyaml.full_hash # pkg_full_hash

\* the value returned when the remote description cannot be used
ResultOfError_Rebuild(rebuild_on_errors) == TRUE
ResultOfError(rebuild_on_errors) == rebuild_on_errors

\* needs_rebuild(spec, mirror_url, rebuild_on_errors) for a concrete spec
\* file_path of needs_rebuild: the spec file below the build_cache
\* directory of the mirror
SpecYamlReadPath(spec, mirror_url) ==
    Append(build_cache_prefix(mirror_url), tarball_name(spec, ".spec.yaml"))

needs_rebuild(spec, specyaml, rebuild_on_errors, fault) ==
    IF ReadSpecYaml(specyaml, fault) # "read"
    THEN ResultOfError(rebuild_on_errors)
    ELSE FullHashStale(specyaml, spec.full_hash)

\* the .spec.yaml on the mirror is replaced by another job or an older
\* spack (no full_hash key), or removed
PublishSpecYaml(y) ==
    /\ mirror_specyaml # y
    /\ mirror_specyaml' = y
    /\ last' = Observed("env")
    /\ UNCHANGED <<auxVars, configured, netVars, cacheVars, built_spec_cache, prefix,
                   mirror_spack, download>>

NeedsRebuild(spec, rebuild_on_errors, fault) ==
    /\ last' = [Observed("needs_rebuild") EXCEPT
                    !.spec = spec, !.rebuild_on_errors = rebuild_on_errors,
                    !.fault = fault,
                    !.before = IF last.op = "build" /\ last.outcome = "ok"
                               THEN "built" ELSE "",
                    !.returned = needs_rebuild(spec, mirror_specyaml,
                                               rebuild_on_errors, fault)]
    /\ UNCHANGED <<auxVars, configured, netVars, cacheVars, built_spec_cache,
                   archiveVars>>

\* ---------------------------------------------------- relocate_package
\* The manifest (.spack/binary_distribution) of an unpacked prefix:
\* prefix_to_hash is "none" (an archive of an older spack, no such key),
\* "empty" or "map".
BuildInfos == [relative_prefix : RelPrefixes, buildpath : Roots,
               spackprefix : Roots, prefix_to_hash : {"none", "empty", "map"}]

\* Where the prefix is being installed: spack.store.layout.root, the
\* prefix relative to it, and spack.paths.prefix.
Layouts == [rel_prefix : RelPrefixes, root : Roots, spack_prefix : Roots]

\* the test as it would be if only the relative prefixes were compared
LayoutIncompatible_AnyMap(old_rel_prefix, new_rel_prefix, prefix_to_hash) ==
    old_rel_prefix # new_rel_prefix
\* "old_rel_prefix != new_rel_prefix and not prefix_to_hash"
LayoutIncompatible(old_rel_prefix, new_rel_prefix, prefix_to_hash) ==
    old_rel_prefix # new_rel_prefix /\ prefix_to_hash \in {"none", "empty"}

\* relocate_package(spec, allow_root); relocated: a relocate.* function has
\* been called on the files of the prefix
relocate_package(buildinfo, layout) ==
    IF LayoutIncompatible(buildinfo.relative_prefix, layout.rel_prefix,
                          buildinfo.prefix_to_hash)
    THEN [outcome |-> "NewLayoutException", relocated |-> FALSE]
    ELSE [outcome |-> "ok",
          relocated |-> \/ buildinfo.buildpath # layout.root
                        \/ buildinfo.spackprefix # layout.spack_prefix]

RelocatePackage(buildinfo, layout) ==
    /\ \E r \in {relocate_package(buildinfo, layout)} :
          last' = [Observed("relocate") EXCEPT
                      !.buildinfo = buildinfo, !.layout = layout,
                      !.outcome = r.outcome, !.relocated = r.relocated]
    /\ UNCHANGED <<auxVars, configured, netVars, cacheVars, built_spec_cache,
                   archiveVars>>

\* --------------------------------------------- relocation of the files
\* the dag hashes of the rpath dependencies a spec can have
DepHashes == DagHashes \ {QueryDag}

\* The manifest write_buildinfo_file wrote when the archive was built:
\* deps are the rpath dependencies then, has_map is false for an archive
\* of an older spack without the prefix_to_hash key.
Manifest(buildpath, relative_prefix, spackprefix, rel, deps, has_map) ==
    [buildpath |-> buildpath, relative_prefix |-> relative_prefix,
     spackprefix |-> spackprefix, relative_rpaths |-> rel,
     deps |-> deps, has_map |-> has_map]

Manifests == {Manifest(<<r>>, p, s, rel, deps, has_map) :
                 r \in Roots, p \in RelPrefixes, s \in Roots,
                 rel \in BOOLEAN, deps \in SUBSET DepHashes,
                 has_map \in BOOLEAN}

\* spack.paths.prefix of the installing spack
NewSpackPrefix == CHOOSE s \in Roots : TRUE

\* The installing side: spack.store.layout.root, the relative prefix of
\* the spec, its rpath dependencies, and platform.binary_formats.
TargetLayouts == [root : RootPaths, rel_prefix : RelPrefixes,
                  deps : SUBSET DepHashes,
                  binary_formats : {{"elf"}, {"macho"}}]

\* buildinfo['prefix_to_hash'] as write_buildinfo_file fills it
PrefixToHash(m) ==
    LET own == m.buildpath \o RelPath(m.relative_prefix)
        orig_prefixes == IF m.has_map
                         THEN {own} \cup {m.buildpath \o DepRelPath(h) :
                                            h \in m.deps}
                         ELSE {}
    IN [orig \in orig_prefixes |->
           IF orig = own THEN QueryDag
           ELSE CHOOSE h \in m.deps : orig = m.buildpath \o DepRelPath(h)]

\* hash_to_prefix of relocate_package: the spec and its rpath dependencies
HashToPrefix(l) ==
    [h \in {QueryDag} \cup l.deps |->
        IF h = QueryDag THEN l.root \o RelPath(l.rel_prefix)
        ELSE l.root \o DepRelPath(h)]

\* "prefix_to_prefix[orig_prefix] = hash_to_prefix.get(hash, None)" for
\* every item of prefix_to_hash, then the entries for old_prefix and
\* old_layout_root
PrefixToPrefix(pth, htp, old_prefix, new_prefix, old_root, new_root) ==
    [orig \in DOMAIN pth \cup {old_prefix, old_root} |->
        IF orig = old_root THEN new_root
        ELSE IF orig = old_prefix THEN new_prefix
        ELSE IF pth[orig] \in DOMAIN htp THEN htp[pth[orig]]
        ELSE None]

\* relocate.relocate_text, relocate_links, relocate_*_binaries and
\* relocate_text_bin on one embedded path: the longest old prefix of the
\* table that the path starts with is replaced by its new prefix
Rewrite(path, table) ==
    LET matches == {o \in DOMAIN table :
                       table[o] # None /\ IsPrefix(o, path)}
    IN IF matches = {} THEN path
       ELSE LET o == CHOOSE x \in matches :
                        \A y \in matches : Len(y) <= Len(x)
            IN table[o] \o SubSeq(path, Len(o) + 1, Len(path))

RelocateResult(outcome, files, table) ==
    [outcome |-> outcome, files |-> files, prefix_to_prefix |-> table]

\* relocate_package(spec, allow_root) on the files of spec.prefix with
\* manifest m, installing into layout l
relocate_package_files(m, l, files) ==
    LET new_layout_root == l.root
        new_prefix == l.root \o RelPath(l.rel_prefix)
        old_layout_root == m.buildpath
        old_prefix == m.buildpath \o RelPath(m.relative_prefix)
        prefix_to_hash == PrefixToHash(m)
        table == PrefixToPrefix(prefix_to_hash, HashToPrefix(l), old_prefix,
                                new_prefix, old_layout_root, new_layout_root)
    IN IF LayoutIncompatible(m.relative_prefix, l.rel_prefix,
                             IF m.has_map THEN "map" ELSE "none")
       THEN RelocateResult("NewLayoutException", files, <<>>)
       ELSE IF old_layout_root # new_layout_root
       THEN RelocateResult("ok",
                Files(Rewrite(files.text, table),
                      Rewrite(files.binary, table),
                      IF "elf" \in l.binary_formats
                      THEN Rewrite(files.link, table) ELSE files.link,
                      files.other),
                table)
       ELSE IF m.spackprefix # NewSpackPrefix
       THEN RelocateResult("ok",
                Files(Rewrite(files.text, table), files.binary, files.link,
                      files.other),
                table)
       ELSE RelocateResult("ok", files, table)

\* the files as build_tarball packed them: every embedded path is the
\* prefix the spec was built in, or relative under rel=True
PackedFiles(m) ==
    LET old_prefix == m.buildpath \o RelPath(m.relative_prefix)
        made == IF m.relative_rpaths THEN RelativeRef ELSE old_prefix
    IN Files(old_prefix, made, made, old_prefix)

\* extract_tarball of an intact archive with manifest m into layout l,
\* from the unpacking on (lines 1079-1118)
InstallArchive(m, l) ==
    /\ ~installed.present
    /\ prefix = NoBody
    /\ \E r \in {relocate_package_files(m, l, PackedFiles(m))} :
          /\ installed' = IF r.outcome = "ok"
                           THEN Installed(TRUE, m, l, r.files, 1)
                           ELSE NotInstalled
          /\ prefix' = IF r.outcome = "ok"
                        THEN CHOOSE v \in Payloads : TRUE ELSE NoBody
          /\ download' = NoContainer
          /\ last' = [Observed("install") EXCEPT
                          !.buildinfo = m, !.layout = l,
                          !.outcome = r.outcome, !.unpacked = TRUE,
                          !.prefix_to_prefix = r.prefix_to_prefix]
    /\ UNCHANGED <<extVars, cache_prefix_index, contents_file, configured, netVars, cacheVars,
                   built_spec_cache, mirror_spack, mirror_specyaml>>

\* a further relocate_package(spec, allow_root) on the installed prefix
RelocateAgain ==
    /\ installed.present
    /\ installed.runs < MaxRelocations
    /\ \E r \in {relocate_package_files(installed.buildinfo,
                                         installed.layout,
                                         installed.files)} :
          /\ installed' = [installed EXCEPT !.files = r.files,
                                            !.runs = @ + 1]
          /\ last' = [Observed("relocate_again") EXCEPT
                          !.buildinfo = installed.buildinfo,
                          !.layout = installed.layout,
                          !.outcome = r.outcome,
                          !.prefix_to_prefix = r.prefix_to_prefix]
    /\ UNCHANGED <<extVars, cache_prefix_index, contents_file, configured, netVars, cacheVars,
                   built_spec_cache, archiveVars>>

\* the installed prefix is removed
Uninstall ==
    /\ installed.present
    /\ installed' = NotInstalled
    /\ prefix' = NoBody
    /\ last' = Observed("env")
    /\ UNCHANGED <<extVars, cache_prefix_index, contents_file, configured, netVars, cacheVars,
                   built_spec_cache, mirror_spack, mirror_specyaml,
                   download>>

\* ------------------------------------------------------- archive spec
\* One spec is built, published to DestMirror, downloaded and installed.
InitArchive ==
    /\ configured = {DestMirror}
    /\ remoteIndex = [m \in Mirrors |-> NoBody]
    /\ remoteHash = [m \in Mirrors |-> EmptyHash]
    /\ initialized = FALSE
    /\ local_index_cache = EmptyIndexCache
    /\ index_files = NoFiles
    /\ contents_json = EmptyIndexCache
    /\ built_spec_cache = <<>>
    /\ ArchivesIdle
    /\ last = Observed("init")

NextArchive ==
    \/ \E v \in Payloads \cup {NoBody} : SetPrefix(v)
    \/ \E force \in BOOLEAN, unsigned \in BOOLEAN,
          regenerate_index \in BOOLEAN, fault \in BuildFaults :
          BuildTarball(force, unsigned, regenerate_index, fault)
    \/ DownloadTarball
    \/ \E v \in Payloads : TamperPayload(v)
    \/ \E h \in {checksum_tarball(v) : v \in Payloads} : TamperSpecfile(h)
    \/ \E unsigned \in BOOLEAN, force \in BOOLEAN, fault \in ExtractFaults :
          ExtractTarball(unsigned, force, fault)

SpecArchive == InitArchive /\ [][NextArchive]_vars

\* ------------------------------------------------------- install spec
\* Any container is staged for the spec (from any mirror, signed or not,
\* with or without a checksum record, intact or altered) and installed.
Containers == {Container(v, h, sig) :
                  v \in Payloads,
                  h \in {checksum_tarball(w) : w \in Payloads} \cup {EmptyHash},
                  sig \in {"none", "good", "bad"}}

\* download_tarball has staged container c
StageContainer(c) ==
    /\ download # c
    /\ download' = c
    /\ last' = Observed("env")
    /\ UNCHANGED <<auxVars, configured, netVars, cacheVars, built_spec_cache, prefix,
                   mirror_spack, mirror_specyaml>>

NextInstall ==
    \/ \E v \in Payloads \cup {NoBody} : SetPrefix(v)
    \/ \E c \in Containers : StageContainer(c)
    \/ \E unsigned \in BOOLEAN, force \in BOOLEAN, fault \in ExtractFaults :
          ExtractTarball(unsigned, force, fault)

SpecInstall == InitArchive /\ [][NextInstall]_vars

\* ------------------------------------------------------ relocation spec
\* relocate_package is applied to any manifest in any layout.
NextRelocate ==
    \E buildinfo \in BuildInfos, layout \in Layouts :
       RelocatePackage(buildinfo, layout)

SpecRelocate == InitArchive /\ [][NextRelocate]_vars

\* ------------------------------------------------------- rebuild spec
\* The spec is built and published, its .spec.yaml on the mirror changes,
\* and needs_rebuild is asked about any full hash of it.
SpecYamls == {SpecYaml(checksum_tarball(v), f) :
                 v \in Payloads, f \in FullHashes \cup {NoBody}}

NextRebuild ==
    \/ \E v \in Payloads \cup {NoBody} : SetPrefix(v)
    \/ \E force \in BOOLEAN, unsigned \in BOOLEAN,
          regenerate_index \in BOOLEAN, fault \in BuildFaults :
          BuildTarball(force, unsigned, regenerate_index, fault)
    \/ \E y \in SpecYamls \cup {NoSpecYaml} : PublishSpecYaml(y)
    \/ \E f \in FullHashes, rebuild_on_errors \in BOOLEAN,
          fault \in ReadFaults :
          NeedsRebuild(Spec(QueryDag, f), rebuild_on_errors, fault)

SpecRebuild == InitArchive /\ [][NextRebuild]_vars

\* ---------------------------------------------------------- signing spec
\* key=None of the caller, and no signature
NoKey == 0
\* the identities Gpg.signing_keys() can list
SigningKeys == 1..NumSigningKeys

SignResult(outcome, signed_with) ==
    [outcome |-> outcome, signed_with |-> signed_with]

\* the test as it would be if several keys were never a reason to stop
KeysAmbiguous_Never(keys) == FALSE
\* len(keys) > 1
KeysAmbiguous(keys) == Cardinality(keys) > 1

\* sign_tarball(key, force, specfile_path); gpg: Gpg.gpg() is not None,
\* keys: Gpg.signing_keys(), asc: '%s.asc' % specfile_path exists.
\* signed_with is the key Gpg.sign was called with, NoKey when not called.
sign_tarball(key, force, gpg, keys, asc) ==
    LET key1 == IF key = NoKey /\ Cardinality(keys) = 1
                THEN CHOOSE k \in keys : TRUE ELSE key
    IN IF ~gpg THEN SignResult("NoGpgException", NoKey)
       ELSE IF key = NoKey /\ KeysAmbiguous(keys)
       THEN SignResult("PickKeyException", NoKey)
       ELSE IF key = NoKey /\ Cardinality(keys) = 0
       THEN SignResult("NoKeyException", NoKey)
       ELSE IF asc /\ ~force
       THEN SignResult("NoOverwriteException", NoKey)
       ELSE SignResult("ok", key1)

\* build_tarball(..., unsigned=False, key=key) with the gpg setup given:
\* "if not unsigned: sign_tarball(key, force, specfile_path)", where
\* specfile_path lies in the new tmpdir and has no .asc beside it
BuildTarballSigning(force, key, gpg, keys) ==
    /\ prefix \in Payloads
    /\ \E s \in {sign_tarball(key, force, gpg, keys, FALSE)} :
       \E r \in {build_tarball(prefix, Destination, force, FALSE, FALSE,
                               IF s.outcome = "ok" THEN "none" ELSE "sign")} :
          /\ mirror_spack' = r.spack
          /\ mirror_specyaml' = r.specyaml
          /\ remoteIndex' = [remoteIndex EXCEPT ![DestMirror] = r.index]
          /\ remoteHash' = [remoteHash EXCEPT ![DestMirror] = r.hash]
          /\ last' = [Observed("build") EXCEPT
                          !.force = force,
                          !.fault = IF s.outcome = "ok" THEN "none"
                                    ELSE "sign",
                          !.outcome = IF r.outcome = "SignError"
                                      THEN s.outcome ELSE r.outcome,
                          !.pushed = r.pushed, !.tmpdir = r.tmpdir,
                          !.existed =
                              (IF mirror_spack # NoContainer
                               THEN {"spack"} ELSE {})
                              \cup (IF mirror_specyaml # NoSpecYaml
                                    THEN {"specyaml"} ELSE {}),
                          !.prior = mirror_spack.payload,
                          !.before = IF last.op = "build"
                                     THEN last.outcome ELSE "",
                          !.gpg = gpg, !.key = key, !.keys = keys,
                          !.signed_with =
                              IF r.outcome = "NoOverwriteException"
                              THEN NoKey ELSE s.signed_with]
    /\ UNCHANGED <<auxVars, configured, cacheVars, built_spec_cache, prefix, download>>

NextSign ==
    \/ \E v \in Payloads \cup {NoBody} : SetPrefix(v)
    \/ \E force \in BOOLEAN, key \in SigningKeys \cup {NoKey},
          gpg \in BOOLEAN, keys \in SUBSET SigningKeys :
          BuildTarballSigning(force, key, gpg, keys)

SpecSign == InitArchive /\ [][NextSign]_vars

\* ------------------------------------------------------- manager spec
\* Every public operation of the cache manager, get_spec and needs_rebuild
\* are called in any order while the mirrors of FaultyMirrors are added
\* and removed; mirror m serves a fixed index with the matching hash file.
\* The spec cache is regenerated while it is empty, as get_specs does.
InitManager ==
    /\ configured = {}
    /\ remoteIndex = [m \in Mirrors |-> ((m - 1) % NumBodies) + 1]
    /\ remoteHash = [m \in Mirrors |-> compute_hash(remoteIndex[m])]
    /\ initialized = FALSE
    /\ local_index_cache = EmptyIndexCache
    /\ index_files = NoFiles
    /\ contents_json = EmptyIndexCache
    /\ built_spec_cache = <<>>
    /\ ArchivesIdle
    /\ last = Observed("init")

NextManager ==
    \/ \E m \in FaultyMirrors : AddMirror(m)
    \/ \E m \in FaultyMirrors : RemoveMirror(m)
    \/ UpdateLocalIndexCache
    \/ \E m \in FaultyMirrors, e \in Hashes \cup {EmptyHash} :
          FetchAndCacheIndex(m, e)
    \/ (built_spec_cache = <<>> /\ RegenerateSpecCache)
    \/ \E f \in FullHashes : FindBuiltSpec(Spec(QueryDag, f))
    \/ GetAllBuiltSpecs
    \/ \E f \in FullHashes, full_hash_match \in BOOLEAN,
          g \in FullHashes \cup {NoBody} :
          GetSpec(Spec(QueryDag, f), full_hash_match,
                  [m \in ProbeMirrors |-> g])
    \/ \E f \in FullHashes, m \in FaultyMirrors :
          UpdateSpec(Spec(QueryDag, f),
                     <<CacheEntry(m, Spec(QueryDag, f))>>)
    \/ \E f \in FullHashes, rebuild_on_errors \in BOOLEAN,
          fault \in ReadFaults :
          NeedsRebuild(Spec(QueryDag, f), rebuild_on_errors, fault)

SpecManager == InitManager /\ [][NextManager]_vars

\* ---------------------------------------------------- corruption spec
\* a cached index file is overwritten on disk behind the manager's back
CorruptIndexFile(cache_key, body) ==
    /\ index_files[cache_key] \notin {NoBody, body}
    /\ index_files' = [index_files EXCEPT ![cache_key] = body]
    /\ last' = Observed("env")
    /\ UNCHANGED <<auxVars, configured, netVars, initialized, local_index_cache,
                   contents_json, built_spec_cache, archiveVars>>

\* The calls that read cached index files, while the files can be damaged.
NextCorrupt ==
    \/ \E m \in FaultyMirrors : AddMirror(m)
    \/ \E m \in FaultyMirrors : RemoveMirror(m)
    \/ UpdateLocalIndexCache
    \/ \E m \in FaultyMirrors, e \in Hashes \cup {EmptyHash} :
          FetchAndCacheIndex(m, e)
    \/ \E k \in CacheKeys, b \in Bodies : CorruptIndexFile(k, b)
    \/ (built_spec_cache = <<>> /\ RegenerateSpecCache)
    \/ \E f \in FullHashes : FindBuiltSpec(Spec(QueryDag, f))

SpecCorrupt == InitManager /\ [][NextCorrupt]_vars

\* ------------------------------------------------------- indexing spec
IndexFaults == {"none", "push_index", "push_index_hash"}

\* the handler as it would be if a failed read ended the loop
SpecFileReadFailed_Raises(db) == [db |-> db, raised |-> TRUE]
\* "except (URLError, web_util.SpackWebError) as url_err: tty.error(...)":
\* the database is left as it is and the loop goes on
SpecFileReadFailed(db) == [db |-> db, raised |-> FALSE]

\* the loop "for file_path in file_list" of generate_package_index from
\* file d on: the file of dag hash d holds Spec(d, full_hash); reading the
\* files of `unreadable` raises URLError
RECURSIVE ReadSpecFiles(_, _, _, _, _)
ReadSpecFiles(db, file_list, unreadable, full_hash, d) ==
    IF d > NumBodies THEN [db |-> db, raised |-> FALSE]
    ELSE IF d \notin file_list
    THEN ReadSpecFiles(db, file_list, unreadable, full_hash, d + 1)
    ELSE LET r == IF d \in unreadable THEN SpecFileReadFailed(db)
                  ELSE [db |-> db \cup {Spec(d, full_hash)},
                        raised |-> FALSE]
         IN IF r.raised THEN r
            ELSE ReadSpecFiles(r.db, file_list, unreadable, full_hash, d + 1)

\* the hash written to index.json.hash if it were the hash of an index
\* without specs
IndexHashOf_Empty(index_string) == compute_hash({})
\* "index_string = f.read(); index_hash = compute_hash(index_string)"
IndexHashOf(index_string) == compute_hash(index_string)

\* generate_package_index(cache_prefix) from the listing on: the files
\* below cache_prefix afterwards, what was pushed, and whether it raised;
\* tmpdir is removed in the finally clause
generate_index_files(files, file_list, unreadable, full_hash, fault) ==
    LET r == ReadSpecFiles({}, file_list, unreadable, full_hash, 1)
        index_string == r.db
        index_hash == IndexHashOf(index_string)
    IN IF r.raised
       THEN [files |-> files, pushed |-> {}, raised |-> TRUE, db |-> r.db]
       ELSE IF fault = "push_index"
       THEN [files |-> files, pushed |-> {}, raised |-> TRUE, db |-> r.db]
       ELSE IF fault = "push_index_hash"
       THEN [files |-> IndexFiles(<<index_string>>, files.index_json_hash),
             pushed |-> {"index"}, raised |-> TRUE, db |-> r.db]
       ELSE [files |-> IndexFiles(<<index_string>>, <<index_hash>>),
             pushed |-> {"index", "index_hash"}, raised |-> FALSE,
             db |-> r.db]

GeneratePackageIndex(file_list, unreadable, full_hash, fault) ==
    /\ \E r \in {generate_index_files(cache_prefix_index, file_list,
                                       unreadable, full_hash, fault)} :
          /\ cache_prefix_index' = r.files
          /\ last' = [Observed("generate_package_index") EXCEPT
                          !.bodies = file_list, !.removed = unreadable,
                          !.specs = r.db, !.fault = fault,
                          !.pushed = r.pushed, !.raised = r.raised,
                          !.before =
                             IF \/ cache_prefix_index = NoIndexFiles
                                \/ /\ cache_prefix_index.index_json # <<>>
                                   /\ cache_prefix_index.index_json_hash
                                        = <<compute_hash(
                                         cache_prefix_index.index_json[1])>>
                             THEN "agree" ELSE "stale"]
    /\ UNCHANGED <<configured, netVars, cacheVars, built_spec_cache,
                   archiveVars, installed, contents_file, extVars>>

NextIndex ==
    \E file_list \in SUBSET DagHashes, full_hash \in FullHashes,
       fault \in IndexFaults :
       \E unreadable \in SUBSET file_list :
          GeneratePackageIndex(file_list, unreadable, full_hash, fault)

SpecIndex == InitArchive /\ [][NextIndex]_vars

\* ------------------------------------------------- concurrent index spec
\* generate_package_index by steps, run by several jobs against one
\* cache_prefix.  Nothing in the function takes a lock on the mirror.
indexFrame ==
    UNCHANGED <<configured, netVars, cacheVars, built_spec_cache, archiveVars,
                installed, contents_file, cdashid_files, publications,
                extraction>>

\* the listing of cache_prefix, the reads of the spec files and the two
\* files written below db_root_dir: file_list is what the mirror lists at
\* that moment
IndexerBuild(p, file_list) ==
    /\ indexers[p].pc = "idle"
    /\ \E r \in {ReadSpecFiles({}, file_list, {}, BuiltSpec.full_hash, 1)} :
          /\ indexers' = [indexers EXCEPT
                              ![p] = Indexer("indexed", r.db,
                                             IndexHashOf(r.db))]
          /\ last' = [Observed("indexer_build") EXCEPT
                          !.key = p, !.bodies = file_list, !.specs = r.db]
    /\ UNCHANGED cache_prefix_index
    /\ indexFrame

\* "Push the index itself"
IndexerPushIndex(p) ==
    /\ indexers[p].pc = "indexed"
    /\ indexers' = [indexers EXCEPT ![p].pc = "pushed_index"]
    /\ cache_prefix_index' =
          IndexFiles(<<indexers[p].index_string>>,
                     cache_prefix_index.index_json_hash)
    /\ last' = [Observed("indexer_push_index") EXCEPT
                    !.key = p, !.pushed = {"index"}]
    /\ indexFrame

\* "Push the hash", then the finally clause and the return
IndexerPushHash(p) ==
    /\ indexers[p].pc = "pushed_index"
    /\ indexers' = [indexers EXCEPT ![p] = IdleIndexer]
    /\ cache_prefix_index' =
          IndexFiles(cache_prefix_index.index_json,
                     <<indexers[p].index_hash>>)
    /\ last' = [Observed("indexer_push_hash") EXCEPT
                    !.key = p, !.pushed = {"index_hash"},
                    !.specs = indexers[p].index_string]
    /\ indexFrame

NextConcurrent ==
    \/ \E p \in Indexers, file_list \in SUBSET DagHashes :
          IndexerBuild(p, file_list)
    \/ \E p \in Indexers : IndexerPushIndex(p)
    \/ \E p \in Indexers : IndexerPushHash(p)

SpecConcurrent == InitArchive /\ [][NextConcurrent]_vars

\* ----------------------------------------------------- round trip spec
\* Archives of any manifest are installed into any layout, relocated
\* again and removed.
NextRoundTrip ==
    \/ \E m \in Manifests, l \in TargetLayouts : InstallArchive(m, l)
    \/ RelocateAgain
    \/ Uninstall

SpecRoundTrip == InitArchive /\ [][NextRoundTrip]_vars

\* ------------------------------------------------------- download spec
\* the urls download_tarball collects: the preferred url when given, then
\* the tarball url of every configured mirror whose fetch_url is not the
\* preferred url
RECURSIVE MirrorUrlsToTry(_, _, _)
MirrorUrlsToTry(conf, url, m) ==
    IF m > NumMirrors THEN <<>>
    ELSE (IF m \in conf /\ (url = NoUrl \/ url # FetchUrl(m))
          THEN <<TarballUrl(m)>> ELSE <<>>)
         \o MirrorUrlsToTry(conf, url, m + 1)

urls_to_try(conf, url) ==
    (IF url # NoUrl THEN <<url>> ELSE <<>>) \o MirrorUrlsToTry(conf, url, 1)

\* the url the stage of one iteration is built from
StagedUrl_TryUrl(url, try_url) == try_url
\* Stage(url, name="build_cache", keep=True): the url argument of
\* download_tarball, not the try_url of the iteration
StagedUrl(url, try_url) == url

\* stage.fetch(): "ok", or "fail" for fs.FetchError; a stage built without
\* a url ends as the input stage_none says ("raise": no FetchError)
StageFetch(u, serving, stage_none) ==
    IF u = NoUrl THEN stage_none
    ELSE IF u.path = "tarball" /\ u.mirror \in serving THEN "ok"
    ELSE "fail"

DownloadResult(outcome, fetched, from) ==
    [outcome |-> outcome, fetched |-> fetched, from |-> from]

\* the loop over urls_to_try, from position i
RECURSIVE TryUrls(_, _, _, _, _, _)
TryUrls(tries, url, serving, stage_none, fetched, i) ==
    IF i > Len(tries) THEN DownloadResult("none", fetched, NoUrl)
    ELSE LET u == StagedUrl(url, tries[i])
             r == StageFetch(u, serving, stage_none)
         IN IF r = "ok" THEN DownloadResult("path", fetched \o <<u>>, u)
            ELSE IF r = "raise"
            THEN DownloadResult("raised", fetched \o <<u>>, NoUrl)
            ELSE TryUrls(tries, url, serving, stage_none,
                         fetched \o <<u>>, i + 1)

download_tarball(conf, url, serving, stage_none) ==
    IF conf = {} THEN DownloadResult("die", <<>>, NoUrl)
    ELSE TryUrls(urls_to_try(conf, url), url, serving, stage_none, <<>>, 1)

\* The container every serving mirror holds for the spec.
ServedContainer ==
    Container(CHOOSE v \in Payloads : TRUE,
              checksum_tarball(CHOOSE v \in Payloads : TRUE), "none")

\* download_tarball(spec, url) while the mirrors of `serving` hold the
\* tarball of the spec
DownloadTarballFrom(url, serving, stage_none) ==
    \E r \in {download_tarball(configured, url, serving, stage_none)} :
       /\ download' = IF r.outcome = "path" THEN ServedContainer
                      ELSE download
       /\ last' = [Observed("download") EXCEPT
                       !.url = url, !.serving = serving,
                       !.outcome = r.outcome, !.fetched = r.fetched,
                       !.from = r.from,
                       !.raised = r.outcome \in {"raised", "die"}]
       /\ UNCHANGED <<auxVars, configured, netVars, cacheVars,
                      built_spec_cache, prefix, mirror_spack,
                      mirror_specyaml>>

\* The preferred url is absent or the tarball url of some mirror.
NextDownload ==
    \/ \E m \in Mirrors : AddMirror(m)
    \/ \E m \in Mirrors : RemoveMirror(m)
    \/ \E url \in {NoUrl} \cup {TarballUrl(m) : m \in Mirrors},
          serving \in SUBSET Mirrors, stage_none \in {"raise", "fail"} :
          DownloadTarballFrom(url, serving, stage_none)

SpecDownload == InitArchive /\ [][NextDownload]_vars

\* -------------------------------------------------------- staging spec
\* Concrete specs form a DAG: the labels are numbered so that a spec's
\* direct dependencies (children[s]) have smaller numbers.
SpecDags ==
    {[s \in JobLabels |-> {d \in JobLabels : <<s, d>> \in edges}] :
        edges \in SUBSET {<<s, d>> \in JobLabels \X JobLabels : d < s}}

\* spec.traverse(): the spec and everything below it
RECURSIVE Traverse(_, _)
Traverse(children, s) ==
    {s} \cup UNION {Traverse(children, d) : d \in children[s]}

\* compute_spec_deps: the 'dependencies' list, as a set of
\* <<spec, depends>> pairs
DependencyEdges(children, roots) ==
    UNION {{<<r, s>> : s \in Traverse(children, r)}
             \cup UNION {{<<s, d>> : d \in children[s]}
                            : s \in Traverse(children, r)}
           : r \in roots}

\* compute_spec_deps: the labels of the 'specs' list
SpecLabels(children, roots) == UNION {Traverse(children, r) : r \in roots}

\* get_spec_dependencies with _add_dependency: label -> set of labels;
\* a label is a key of the dictionary iff its set is not empty
get_spec_dependencies(children, roots) ==
    [s \in JobLabels |->
        {d \in JobLabels : <<s, d>> \in DependencyEdges(children, roots)
                              /\ s # d}]

Keys(deps) == {s \in DOMAIN deps : deps[s] # {}}

\* new_value of remove_satisfied_deps when the stage is forgotten
Unsatisfied_All(value, satisfied_list) == value
\* new_value: set([v for v in value if v not in satisfied_list])
Unsatisfied(value, satisfied_list) == value \ satisfied_list

remove_satisfied_deps(deps, satisfied_list) ==
    [key \in DOMAIN deps |-> Unsatisfied(deps[key], satisfied_list)]

\* the while loop of stage_spec_jobs and the final stage; the loop ends
\* after at most `fuel` rounds in the model (it would not end in the code
\* if a round staged nothing)
RECURSIVE StageLoop(_, _, _, _)
StageLoop(dependencies, unstaged, stages, fuel) ==
    IF Keys(dependencies) = {} \/ fuel = 0
    THEN IF unstaged # {} THEN Append(stages, unstaged) ELSE stages
    ELSE LET next_stage == unstaged \ Keys(dependencies)
         IN StageLoop(remove_satisfied_deps(dependencies, next_stage),
                      unstaged \ next_stage,
                      Append(stages, next_stage), fuel - 1)

stage_spec_jobs(children, roots) ==
    LET deps == get_spec_dependencies(children, roots)
        spec_labels == SpecLabels(children, roots)
    IN [spec_labels |-> spec_labels, deps |-> deps,
        stages |-> StageLoop(deps, spec_labels, <<>>, NumJobs + 1)]

\* the specs given to stage_spec_jobs
InitStage ==
    /\ configured = {DestMirror}
    /\ remoteIndex = [m \in Mirrors |-> NoBody]
    /\ remoteHash = [m \in Mirrors |-> EmptyHash]
    /\ initialized = FALSE
    /\ local_index_cache = EmptyIndexCache
    /\ index_files = NoFiles
    /\ contents_json = EmptyIndexCache
    /\ built_spec_cache = <<>>
    /\ ArchivesIdle
    /\ \E children \in SpecDags, roots \in SUBSET JobLabels :
          last = [Observed("specs") EXCEPT !.children = children,
                                           !.roots = roots]

StageSpecJobs ==
    /\ last.op = "specs"
    /\ \E r \in {stage_spec_jobs(last.children, last.roots)} :
          last' = [Observed("stage_spec_jobs") EXCEPT
                      !.children = last.children, !.roots = last.roots,
                      !.spec_labels = r.spec_labels, !.deps = r.deps,
                      !.stages = r.stages]
    /\ UNCHANGED <<auxVars, configured, netVars, cacheVars,
                   built_spec_cache, archiveVars>>

NextStage == StageSpecJobs

SpecStage == InitStage /\ [][NextStage]_vars

\* ------------------------------------------------------- cdash id spec
\* '{0}.cdashid'.format(buildcache_name) below build_cache on the mirror,
\* as write_cdashid_to_mirror computes it
WrittenUrl(spec, mirror_url) ==
    <<mirror_url, "build_cache", tarball_name(spec, ""), ".cdashid">>

\* the url read when the build_cache directory is left out
ReadUrl_MirrorRoot(spec, mirror_url) ==
    <<mirror_url, tarball_name(spec, ""), ".cdashid">>
\* the url read_cdashid_from_mirror computes
ReadUrl(spec, mirror_url) ==
    <<mirror_url, "build_cache", tarball_name(spec, ""), ".cdashid">>

\* A CDash build id is a positive number given as its decimal text, a
\* sequence of digits: str(n)
RECURSIVE Decimal(_)
Decimal(n) == IF n < 10 THEN <<n>> ELSE Append(Decimal(n \div 10), n % 10)

\* int(contents)
RECURSIVE IntOf(_)
IntOf(text) ==
    IF Len(text) = 1 THEN text[1]
    ELSE 10 * IntOf(SubSeq(text, 1, Len(text) - 1)) + text[Len(text)]

\* the ids of the model: 21, 42, ...
CdashIds == {Decimal(21 * k) : k \in 1..NumCdashIds}

OtherDag == CHOOSE d \in DagHashes : d # QueryDag
CdashSpecs == {Spec(QueryDag, CHOOSE f \in FullHashes : TRUE),
               Spec(OtherDag, CHOOSE f \in FullHashes : TRUE)}

\* write_cdashid_to_mirror(cdashid, spec, mirror_url) for a concrete spec
WriteCdashidToMirror(cdashid, spec, mirror_url) ==
    /\ cdashid_files' =
          [u \in DOMAIN cdashid_files \cup {WrittenUrl(spec, mirror_url)} |->
              IF u = WrittenUrl(spec, mirror_url) THEN cdashid
              ELSE cdashid_files[u]]
    /\ last' = [Observed("write_cdashid") EXCEPT
                    !.spec = spec, !.mirror = mirror_url,
                    !.cdashid = cdashid]
    /\ UNCHANGED <<publications, extraction, indexers,
                   cache_prefix_index, installed,
                   contents_file, configured, netVars, cacheVars,
                   built_spec_cache, archiveVars>>

\* read_cdashid_from_mirror(spec, mirror_url) for a concrete spec;
\* web_util.read_from_url raises when the url does not exist
ReadCdashidFromMirror(spec, mirror_url) ==
    /\ last' = [Observed("read_cdashid") EXCEPT
                    !.spec = spec, !.mirror = mirror_url,
                    !.raised = ReadUrl(spec, mirror_url)
                                  \notin DOMAIN cdashid_files,
                    !.value =
                       IF ReadUrl(spec, mirror_url) \in DOMAIN cdashid_files
                       THEN IntOf(cdashid_files[ReadUrl(spec, mirror_url)])
                       ELSE 0]
    /\ UNCHANGED <<auxVars, configured, netVars, cacheVars,
                   built_spec_cache, archiveVars>>

NextCdash ==
    \/ \E cdashid \in CdashIds, spec \in CdashSpecs, m \in ProbeMirrors :
          WriteCdashidToMirror(cdashid, spec, m)
    \/ \E spec \in CdashSpecs, m \in ProbeMirrors :
          ReadCdashidFromMirror(spec, m)

SpecCdash == InitArchive /\ [][NextCdash]_vars

\* ------------------------------------------------------ freshness spec
\* a mirror publishes index body b together with its hash file (as
\* generate_package_index does when it succeeds)
PublishIndex(m, b) ==
    /\ publications < MaxPublications
    /\ remoteIndex[m] # b
    /\ publications' = publications + 1
    /\ remoteIndex' = [remoteIndex EXCEPT ![m] = b]
    /\ remoteHash' = [remoteHash EXCEPT ![m] = compute_hash(b)]
    /\ last' = Observed("env")
    /\ UNCHANGED <<cdashid_files, extraction, indexers,
                   cache_prefix_index, installed,
                   contents_file, configured, cacheVars, built_spec_cache,
                   archiveVars>>

\* The mirrors stay reachable and consistent; update_local_index_cache is
\* called again and again (get_specs calls it for every query).
NextFresh ==
    \/ \E m \in FaultyMirrors : AddMirror(m)
    \/ \E m \in FaultyMirrors : RemoveMirror(m)
    \/ \E m \in FaultyMirrors, b \in Bodies : PublishIndex(m, b)
    \/ UpdateLocalIndexCache
    \/ \E m \in FaultyMirrors : FetchAndCacheIndex(m, EmptyHash)

SpecFresh ==
    InitManager /\ [][NextFresh]_vars /\ WF_vars(UpdateLocalIndexCache)

\* ------------------------------------------------- install steps spec
\* extract_tarball, one action per step of the function.  A step that
\* raises ends the call.
Raised(outcome) ==
    /\ extraction' = [extraction EXCEPT !.pc = "idle"]
    /\ last' = [Observed("extract_step") EXCEPT
                    !.outcome = outcome, !.raised = TRUE,
                    !.before = extraction.pc]

Stepped(pc) ==
    last' = [Observed("extract_step") EXCEPT !.outcome = pc,
                                             !.before = extraction.pc]

stepFrame == <<cdashid_files, publications, indexers, cache_prefix_index, installed, contents_file, configured, netVars, cacheVars, built_spec_cache, mirror_spack, mirror_specyaml>>

\* the test of spec.prefix, the rmtree under force, mkdtemp and the
\* extraction of the .spack container into tmpdir
ExtractOpen(unsigned, force, fault) ==
    /\ extraction.pc = "idle"
    /\ download # NoContainer
    /\ fault \in ExtractFaults
    /\ IF prefix # NoBody /\ ~force
       THEN /\ Raised("NoOverwriteException")
            /\ UNCHANGED prefix
       ELSE /\ prefix' = NoBody
            /\ IF fault = "unreadable"
               THEN /\ extraction' =
                          Extraction("idle", unsigned, force, fault,
                                     FALSE, FALSE, FALSE)
                    /\ last' = [Observed("extract_step") EXCEPT
                                    !.outcome = "ReadError",
                                    !.raised = TRUE, !.before = "idle"]
               ELSE /\ extraction' =
                          Extraction("opened", unsigned, force, fault,
                                     FALSE, FALSE, FALSE)
                    /\ Stepped("opened")
    /\ UNCHANGED <<stepFrame, download>>

\* "if not unsigned": the .asc file must exist and Gpg.verify must pass
ExtractVerify ==
    /\ extraction.pc = "opened"
    /\ IF SignatureMissing(extraction.unsigned, download.sig)
       THEN Raised("NoVerifyException")
       ELSE IF ~extraction.unsigned /\ download.sig = "bad"
       THEN Raised("VerifyError")
       ELSE /\ extraction' =
                  [extraction EXCEPT
                      !.pc = "verified",
                      !.verified = ~extraction.unsigned
                                      /\ download.sig = "good"]
            /\ Stepped("verified")
    /\ UNCHANGED <<stepFrame, prefix, download>>

\* checksum_tarball(tarfile_path) against spec_dict['binary_cache_checksum']
ExtractChecksum ==
    /\ extraction.pc = "verified"
    /\ IF download.recorded = EmptyHash
       THEN Raised("KeyError")
       ELSE IF ChecksumDiffers(download.recorded,
                               checksum_tarball(download.payload))
       THEN Raised("NoChecksumException")
       ELSE /\ extraction' = [extraction EXCEPT !.pc = "checked",
                                                !.checksummed = TRUE]
            /\ Stepped("checked")
    /\ UNCHANGED <<stepFrame, prefix, download>>

\* the tarball is unpacked in tmpdir and copied to spec.prefix
ExtractUnpack ==
    /\ extraction.pc = "checked"
    /\ IF extraction.fault = "unpack"
       THEN /\ prefix' = PartialInstall
            /\ extraction' = [extraction EXCEPT !.pc = "idle",
                                                !.wrote = TRUE]
            /\ last' = [Observed("extract_step") EXCEPT
                            !.outcome = "UnpackError", !.raised = TRUE,
                            !.before = "checked", !.unpacked = TRUE]
       ELSE /\ prefix' = download.payload
            /\ extraction' = [extraction EXCEPT !.pc = "unpacked",
                                                !.wrote = TRUE]
            /\ last' = [Observed("extract_step") EXCEPT
                            !.outcome = "unpacked",
                            !.before = "checked", !.unpacked = TRUE]
    /\ UNCHANGED <<stepFrame, download>>

\* relocate_package in its try statement; the finally clause removes
\* tmpdir and the staged file
ExtractRelocate ==
    /\ extraction.pc = "unpacked"
    /\ IF extraction.fault = "reloc"
       THEN /\ prefix' = RelocateFailed(prefix)
            /\ Raised("RelocateError")
       ELSE /\ UNCHANGED prefix
            /\ extraction' = [extraction EXCEPT !.pc = "idle"]
            /\ last' = [Observed("extract_step") EXCEPT
                            !.outcome = "ok", !.before = "unpacked",
                            !.relocated = TRUE]
    /\ download' = NoContainer
    /\ UNCHANGED stepFrame

\* No other operation touches the prefix or the staged file during a call.
NextSteps ==
    \/ (extraction.pc = "idle"
          /\ \E v \in Payloads \cup {NoBody} : SetPrefix(v))
    \/ (extraction.pc = "idle" /\ \E c \in Containers : StageContainer(c))
    \/ \E unsigned \in BOOLEAN, force \in BOOLEAN, fault \in ExtractFaults :
          ExtractOpen(unsigned, force, fault)
    \/ ExtractVerify
    \/ ExtractChecksum
    \/ ExtractUnpack
    \/ ExtractRelocate

SpecSteps == InitArchive /\ [][NextSteps]_vars

\* ------------------------------------------------------ start-up spec
\* json.load(cache_file) on contents.json: a zero-length file is no JSON
\* document and json.load raises; self._local_index_cache was set to {}
\* on the line before
LoadContents(form, persisted) ==
    IF form = "empty" THEN [lic |-> EmptyIndexCache, raised |-> TRUE]
    ELSE [lic |-> persisted, raised |-> FALSE]

\* _init_local_index_cache, with the file on disk in the given form
init_local_index_cache(inited, lic, form, persisted) ==
    IF inited THEN [lic |-> lic, raised |-> FALSE]
    ELSE IF form = "absent" THEN [lic |-> EmptyIndexCache, raised |-> FALSE]
    ELSE LoadContents(form, persisted)

\* the first use of the manager: _init_local_index_cache() on its own
InitCache ==
    \E r \in {init_local_index_cache(initialized, local_index_cache,
                                      contents_file, contents_json)} :
       /\ initialized' = TRUE     \* self._index_file_cache is assigned first
       /\ local_index_cache' = r.lic
       /\ last' = [Observed("init_cache") EXCEPT
                       !.raised = r.raised,
                       !.before = IF initialized THEN "initialized"
                                  ELSE contents_file]
       /\ UNCHANGED <<auxVars, configured, netVars, index_files,
                      contents_json, built_spec_cache, archiveVars>>

\* BinaryDistributionCacheManager(): a new process constructs a manager on
\* the same cache root
NewManager ==
    /\ initialized
    /\ initialized' = FALSE
    /\ local_index_cache' = EmptyIndexCache
    /\ built_spec_cache' = <<>>
    /\ last' = Observed("env")
    /\ UNCHANGED <<auxVars, configured, netVars, index_files, contents_json,
                   archiveVars>>

\* between two processes contents.json is left with zero length, or is
\* removed
SetContentsFile(form) ==
    /\ ~initialized
    /\ form \in {"absent", "empty"}
    /\ contents_file # form
    /\ contents_file' = form
    /\ contents_json' = EmptyIndexCache
    /\ last' = Observed("env")
    /\ UNCHANGED <<extVars, cache_prefix_index, installed, configured, netVars,
                   initialized, local_index_cache, index_files,
                   built_spec_cache, archiveVars>>

\* The public methods run once the cache has been initialised.
NextStart ==
    \/ \E m \in Mirrors : AddMirror(m)
    \/ \E m \in Mirrors : RemoveMirror(m)
    \/ InitCache
    \/ NewManager
    \/ \E form \in {"absent", "empty"} : SetContentsFile(form)
    \/ (initialized /\ UpdateLocalIndexCache)

SpecStart == InitManager /\ [][NextStart]_vars

\* ------------------------------------------------------------- claims
\* The cache as update_local_index_cache sees it when it starts.
CacheAtCall == InitLocalIndexCache(initialized, local_index_cache,
                                   contents_json)

EntryFor(body) == [index_hash |-> compute_hash(body),
                   index_path |-> index_cache_key(compute_hash(body))]

\* C1: with every mirror reachable and consistent, update_local_index_cache
\* removes the entries of mirrors that are no longer configured, keeps the
\* entry of a configured mirror without fetching its index body when the
\* remote hash equals the cached hash, refreshes it otherwise, and creates
\* an entry for every configured mirror that had none: afterwards the keys
\* of the index of indices are the configured mirrors.
C1_Reconciliation ==
    [][last'.op = "update" =>
        /\ CachedUrls(local_index_cache') = configured
        /\ contents_json' = local_index_cache'
        /\ \A m \in Mirrors :
             LET before == CacheAtCall[m]
                 after == local_index_cache'[m]
             IN /\ m \notin configured => after = NoEntry
                /\ m \in configured => after = EntryFor(remoteIndex'[m])
                /\ (m \in configured /\ before # NoEntry
                        /\ before.index_hash = remoteHash'[m])
                     => (after = before /\ m \notin last'.bodies)
                /\ (m \in configured /\ before = NoEntry)
                     => m \in last'.bodies
    ]_vars

\* C1 witness: one call removed an entry, kept another without fetching
\* its body, and created a third.
C1_Witness ==
    /\ last.op = "update"
    /\ \E a \in last.removed, c \in last.created :
         \E b \in configured \ (last.bodies \cup {a, c}) :
            /\ local_index_cache[a] = NoEntry
            /\ local_index_cache[b] # NoEntry
            /\ local_index_cache[c] # NoEntry
            /\ CachedUrls(local_index_cache) = {b, c}

\* C6: for every mirror in the index cache the file at the recorded cache
\* path exists and the digest of its content is the recorded index hash.
C6_EntryFileDigest ==
    \A m \in CachedUrls(local_index_cache) :
        LET entry == local_index_cache[m] IN
        /\ index_files[entry.index_path] # NoBody
        /\ compute_hash(index_files[entry.index_path]) = entry.index_hash


\* The read of the hash file or of the index of mirror m fails.
ReadFails(m) == remoteHash[m] = EmptyHash \/ remoteIndex[m] = NoBody

\* The index body of mirror m is readable and its digest is not the
\* published hash.
DigestDiffers(m) ==
    /\ remoteIndex[m] # NoBody
    /\ compute_hash(remoteIndex[m]) # remoteHash[m]

\* C4: when the digest of the fetched index body differs from the hash
\* published in the hash file, fetch_and_cache_index leaves the mirror's
\* entry as it was (none stays none) and writes no cached index file.
C4_MismatchAbandons ==
    [][\A m \in Mirrors :
         (last'.op = "fetch" /\ last'.mirror = m /\ DigestDiffers(m))
            => (local_index_cache' = local_index_cache
                /\ index_files' = index_files)
    ]_vars

\* C4 witness: a direct call fetched the body of a mirror whose published
\* hash is that of another body, and the old entry is still in place.
C4_Witness ==
    \E m \in Mirrors :
        /\ last.op = "fetch" /\ last.mirror = m /\ m \in last.bodies
        /\ DigestDiffers(m) /\ remoteHash[m] # EmptyHash
        /\ local_index_cache[m] # NoEntry
        /\ local_index_cache[m].index_hash # compute_hash(remoteIndex[m])

\* C5: when the read of the hash file or of the index file fails,
\* fetch_and_cache_index returns without raising and the mirror's entry is
\* preserved; the same holds for the calls update_local_index_cache makes
\* for the configured mirrors.
C5_NetworkErrorPreserves ==
    [][\A m \in Mirrors :
         /\ (last'.op = "fetch" /\ last'.mirror = m /\ ReadFails(m))
              => (~last'.raised /\ local_index_cache' = local_index_cache
                  /\ index_files' = index_files)
         /\ (last'.op = "update" /\ m \in configured /\ ReadFails(m))
              => (~last'.raised /\ local_index_cache'[m] = CacheAtCall[m])
    ]_vars

\* C5 witness: the index read of a cached mirror failed after its hash
\* file announced a new index, and the entry is still there.
C5_Witness ==
    \E m \in Mirrors :
        /\ last.op \in {"fetch", "update"} /\ m \in last.bodies
        /\ remoteIndex[m] = NoBody /\ remoteHash[m] # EmptyHash
        /\ local_index_cache[m] # NoEntry
        /\ local_index_cache[m].index_hash # remoteHash[m]

\* C2: when the recomputed checksum of the tarball differs from the recorded
\* one, extract_tarball raises the checksum error and the destination
\* prefix is in the state it had before the call, whatever the options.
C2_MismatchLeavesPrefix ==
    [][(last'.op = "extract" /\ last'.outcome = "NoChecksumException")
          => prefix' = prefix]_vars

\* C3: a build_tarball that fails never leaves the destination mirror with
\* the newly published .spack container but not its .spec.yaml, or the
\* reverse.
C3_NoHalfPublishedArchive ==
    [][(last'.op = "build" /\ last'.outcome # "ok")
          => (("spack" \in last'.pushed) <=> ("specyaml" \in last'.pushed))]_vars

\* C7: when the destination already holds a .spack or a .spec.yaml for the
\* spec, build_tarball without force raises NoOverwriteException and
\* publishes nothing; with force (and no other step failing) it succeeds
\* and the destination then holds the newly built container and its
\* .spec.yaml in place of the prior ones.
C7_ForceOverwrite ==
    [][(last'.op = "build" /\ last'.existed # {}) =>
          /\ ~last'.force =>
                /\ last'.outcome = "NoOverwriteException"
                /\ last'.pushed = {}
                /\ mirror_spack' = mirror_spack
                /\ mirror_specyaml' = mirror_specyaml
          /\ (last'.force /\ last'.fault = "none") =>
                /\ last'.outcome = "ok"
                /\ mirror_spack'.payload = prefix
                /\ mirror_spack'.recorded = checksum_tarball(prefix)
                /\ mirror_specyaml' = SpecYaml(checksum_tarball(prefix),
                                               BuiltSpec.full_hash)]_vars

\* a forced build has replaced a different prior archive, right after an
\* unforced build was refused
C7_Witness ==
    /\ last.op = "build"
    /\ last.force
    /\ last.outcome = "ok"
    /\ last.before = "NoOverwriteException"
    /\ last.existed = {"spack", "specyaml"}
    /\ last.prior # mirror_spack.payload
    /\ mirror_spack.payload = prefix

\* C8: with unchanged cached indices, a further call of
\* regenerate_spec_cache leaves the spec cache equal to what the previous
\* call left.
C8_RegenerateIdempotent ==
    [][(last.op = "regen" /\ ~last.raised /\ last'.op = "regen")
          => built_spec_cache' = built_spec_cache]_vars

\* the entries of a record that pass the filter of get_spec
Passing(record, spec, full_hash_match) ==
    SelectSeq(record, LAMBDA e :
                 ~full_hash_match \/ e.spec.full_hash = spec.full_hash)

\* C9: when the spec cache holds an entry for the dag hash of the spec that
\* passes the filter, get_spec returns the passing cached entries and
\* probes no mirror.
C9_CacheBeforeProbe ==
    [][(/\ last'.op = "get_spec"
        /\ configured # {}
        /\ Passing(Record(built_spec_cache, last'.spec.dag_hash),
                   last'.spec, last'.full_hash_match) # <<>>)
          => /\ last'.probed = {}
             /\ last'.results =
                    Passing(Record(built_spec_cache, last'.spec.dag_hash),
                            last'.spec, last'.full_hash_match)]_vars

\* the record after merging found_list into it: the spec of an entry for
\* the same mirror is replaced, a hit for a new mirror is appended
RECURSIVE Merged(_, _, _)
Merged(record, found_list, i) ==
    IF i > Len(found_list) THEN record
    ELSE LET k == FirstFor(record, found_list[i].mirror_url)
         IN Merged(IF k = 0 THEN Append(record, found_list[i])
                   ELSE [record EXCEPT ![k].spec = found_list[i].spec],
                   found_list, i + 1)

\* C10: update_spec completes without error; for a dag hash that has a
\* record it replaces the spec of the entries whose mirror_url is hit,
\* appends the hits for new mirrors and leaves the rest; for a dag hash
\* without a record the hits become the record.
C10_MergeSemantics ==
    [][last'.op = "update_spec" =>
          /\ ~last'.raised
          /\ Record(built_spec_cache', last'.spec.dag_hash) =
                IF last'.spec.dag_hash \in DOMAIN built_spec_cache
                THEN Merged(built_spec_cache[last'.spec.dag_hash],
                            last'.found_list, 1)
                ELSE last'.found_list]_vars

\* C11: with full_hash_match, every entry get_spec returns has a spec whose
\* full hash is the full hash of the requested spec.
C11_StrictResultsMatch ==
    [][(last'.op = "get_spec" /\ last'.full_hash_match) =>
          \A i \in 1..Len(last'.results) :
             last'.results[i].spec.full_hash = last'.spec.full_hash]_vars

\* a strict lookup returned a hit while the record of the dag hash held, for
\* another probed mirror, an entry with another full hash
C11_Witness ==
    /\ last.op = "get_spec"
    /\ last.full_hash_match
    /\ ~last.raised
    /\ last.results # <<>>
    /\ \E i \in 1..Len(Record(built_spec_cache, last.spec.dag_hash)) :
          /\ built_spec_cache[last.spec.dag_hash][i].mirror_url \in last.probed
          /\ built_spec_cache[last.spec.dag_hash][i].spec.full_hash
                # last.spec.full_hash

\* C12: when the remote spec description is read and is not empty,
\* needs_rebuild returns False exactly when it records a full hash equal to
\* the full hash of the local spec, True when the full hash is absent or
\* different, whatever rebuild_on_errors is.
C12_RebuildByFullHash ==
    [][(/\ last'.op = "needs_rebuild"
        /\ ReadSpecYaml(mirror_specyaml, last'.fault) = "read")
          => (last'.returned
                <=> (mirror_specyaml.full_hash # last'.spec.full_hash))]_vars

\* needs_rebuild answered False with rebuild_on_errors set, for the
\* description that build_tarball published
C12_Witness ==
    /\ last.op = "needs_rebuild"
    /\ last.fault = "none"
    /\ last.rebuild_on_errors
    /\ ~last.returned
    /\ mirror_spack # NoContainer
    /\ mirror_specyaml = SpecYaml(mirror_spack.recorded, last.spec.full_hash)

\* C13: when the read of the remote spec description fails or returns
\* nothing, needs_rebuild returns rebuild_on_errors.
C13_ErrorsFollowPolicy ==
    [][(/\ last'.op = "needs_rebuild"
        /\ ReadSpecYaml(mirror_specyaml, last'.fault) # "read")
          => (last'.returned <=> last'.rebuild_on_errors)]_vars

\* an empty read of a description whose full hash is stale was answered
\* False, as rebuild_on_errors said
C13_Witness ==
    /\ last.op = "needs_rebuild"
    /\ last.fault = "empty"
    /\ ~last.rebuild_on_errors
    /\ ~last.returned
    /\ mirror_specyaml # NoSpecYaml
    /\ mirror_specyaml.full_hash # last.spec.full_hash

\* C14: with unsigned=False, extract_tarball gets past the signature step
\* only when the container holds a signature that verifies; a missing
\* signature raises NoVerifyException and a failed verification raises,
\* and then the temp directory is removed and nothing is written under the
\* destination prefix.
C14_SignatureRequired ==
    [][(last'.op = "extract" /\ ~last'.unsigned
           /\ last'.outcome \notin {"NoOverwriteException", "ReadError"}) =>
          /\ download.sig = "none" =>
                /\ last'.outcome = "NoVerifyException"
                /\ ~last'.tmpdir /\ ~last'.unpacked
                /\ prefix' \notin Payloads \cup {PartialInstall}
          /\ download.sig = "bad" =>
                /\ last'.outcome = "VerifyError"
                /\ ~last'.tmpdir /\ ~last'.unpacked
                /\ prefix' \notin Payloads \cup {PartialInstall}
          /\ last'.outcome \in {"KeyError", "NoChecksumException",
                                "UnpackError", "RelocateError", "ok"}
                => download.sig = "good"]_vars

\* a container whose tarball and checksum agree, but without a signature,
\* was refused
C14_Witness ==
    /\ last.op = "extract"
    /\ ~last.unsigned
    /\ last.outcome = "NoVerifyException"
    /\ download.sig = "none"
    /\ download.recorded = checksum_tarball(download.payload)
    /\ prefix = NoBody

\* the container passes the signature and checksum steps of a call with
\* this value of unsigned
Installable(dl, unsigned) ==
    /\ unsigned \/ dl.sig = "good"
    /\ dl.recorded = checksum_tarball(dl.payload)

\* C15: when relocate_package fails in extract_tarball, the exception is
\* raised to the caller and the destination prefix does not exist
\* afterwards.
C15_RelocateFailureRemovesPrefix ==
    [][(/\ last'.op = "extract"
        /\ last'.fault = "reloc"
        /\ (prefix = NoBody \/ last'.force)
        /\ Installable(download, last'.unsigned))
          => /\ last'.outcome = "RelocateError"
             /\ last'.unpacked
             /\ prefix' = NoBody]_vars

\* relocation failed in a forced install over an existing prefix
C15_Witness ==
    /\ last.op = "extract"
    /\ last.outcome = "RelocateError"
    /\ last.force
    /\ last.prior \in Payloads
    /\ last.unpacked
    /\ prefix = NoBody

\* C16: relocate_package raises NewLayoutException, before any file is
\* relocated, exactly when the manifest records a relative prefix other
\* than the one of the destination and has no or an empty prefix_to_hash.
C16_LayoutIncompatibility ==
    [][last'.op = "relocate" =>
          /\ (/\ last'.buildinfo.relative_prefix # last'.layout.rel_prefix
              /\ last'.buildinfo.prefix_to_hash # "map")
                => (last'.outcome = "NewLayoutException" /\ ~last'.relocated)
          /\ (\/ last'.buildinfo.relative_prefix = last'.layout.rel_prefix
              \/ last'.buildinfo.prefix_to_hash = "map")
                => last'.outcome # "NewLayoutException"]_vars

\* an archive of an older spack, built in the same install tree under
\* another relative prefix, was refused
C16_Witness ==
    /\ last.op = "relocate"
    /\ last.outcome = "NewLayoutException"
    /\ last.buildinfo.prefix_to_hash = "none"
    /\ last.buildinfo.buildpath = last.layout.root
    /\ last.buildinfo.relative_prefix # last.layout.rel_prefix

\* C17: the temp directory build_tarball creates does not exist any more
\* when the call returns or raises, on every exit path.
C17_BuildRemovesTmpdir ==
    [][last'.op = "build" => ~last'.tmpdir]_vars

\* C18: the temp directory extract_tarball creates does not exist any more
\* when the call returns or raises, on every exit path.
C18_ExtractRemovesTmpdir ==
    [][last'.op = "extract" => ~last'.tmpdir]_vars

\* C19: when the relocatability step of build_tarball fails, the call is
\* aborted, its temp directory is removed and nothing is pushed to the
\* mirror: the mirror holds no container or .spec.yaml it did not hold.
C19_RelocatabilityFailureAborts ==
    [][(/\ last'.op = "build"
        /\ last'.fault = "reloc"
        /\ (last'.existed = {} \/ last'.force))
          => /\ last'.outcome = "SystemExit"
             /\ last'.pushed = {}
             /\ ~last'.tmpdir
             /\ mirror_spack' \in {mirror_spack, NoContainer}
             /\ mirror_specyaml' \in {mirror_specyaml, NoSpecYaml}
             /\ remoteIndex' = remoteIndex /\ remoteHash' = remoteHash]_vars

\* a signed build with index regeneration asked for was aborted by the
\* relocatability step and the mirror is still empty
C19_Witness ==
    /\ last.op = "build"
    /\ last.fault = "reloc"
    /\ last.outcome = "SystemExit"
    /\ ~last.unsigned
    /\ last.existed = {}
    /\ prefix \in Payloads
    /\ mirror_spack = NoContainer
    /\ mirror_specyaml = NoSpecYaml

\* C20: a signed build that reaches the signing step fails with
\* NoGpgException when no gpg is available, with PickKeyException when no
\* key was given and several signing keys exist, with NoKeyException when
\* no key was given and none exists; it signs with the only signing key
\* when no key was given and one exists, and with the given key whatever
\* keys exist. A failing build makes no signature and publishes no
\* container.
C20_SigningOutcomes ==
    [][(/\ last'.op = "build"
        /\ ~last'.unsigned
        /\ (last'.existed = {} \/ last'.force))
          => /\ ~last'.gpg => last'.outcome = "NoGpgException"
             /\ (last'.gpg /\ last'.key = NoKey
                    /\ Cardinality(last'.keys) > 1)
                   => last'.outcome = "PickKeyException"
             /\ (last'.gpg /\ last'.key = NoKey /\ last'.keys = {})
                   => last'.outcome = "NoKeyException"
             /\ (last'.gpg /\ last'.key = NoKey
                    /\ Cardinality(last'.keys) = 1)
                   => /\ last'.outcome = "ok"
                      /\ last'.keys = {last'.signed_with}
                      /\ mirror_spack'.sig = "good"
             /\ (last'.gpg /\ last'.key # NoKey)
                   => /\ last'.outcome = "ok"
                      /\ last'.signed_with = last'.key
                      /\ mirror_spack'.sig = "good"
             /\ last'.outcome # "ok"
                   => /\ last'.signed_with = NoKey
                      /\ last'.pushed = {}
                      /\ mirror_spack' \in {mirror_spack, NoContainer}]_vars

\* a build given no key was stopped because two signing keys exist
C20_Witness ==
    /\ last.op = "build"
    /\ last.gpg
    /\ last.key = NoKey
    /\ Cardinality(last.keys) > 1
    /\ last.outcome = "PickKeyException"
    /\ last.signed_with = NoKey
    /\ mirror_spack = NoContainer

\* C21: fetch_and_cache_index reads the hash file first; when an expected
\* hash is given and the hash file holds it, the call returns without
\* requesting index.json and leaves the cache entry, the cached files and
\* contents.json as they were.
C21_ExpectedHashSkipsFetch ==
    [][(/\ last'.op = "fetch"
        /\ last'.expect # EmptyHash
        /\ ReadHashFile(Net, last'.mirror) = last'.expect)
          => /\ last'.bodies = {}
             /\ ~last'.raised
             /\ local_index_cache' = local_index_cache
             /\ index_files' = index_files
             /\ contents_json' = contents_json]_vars

\* the call was skipped although index.json of the mirror was readable and
\* had another digest than the one expected and cached
C21_Witness ==
    /\ last.op = "fetch"
    /\ last.expect # EmptyHash
    /\ last.bodies = {}
    /\ \E m \in FaultyMirrors :
          /\ last.mirror = m
          /\ remoteHash[m] = last.expect
          /\ local_index_cache[m].index_hash = last.expect
          /\ remoteIndex[m] # NoBody
          /\ compute_hash(remoteIndex[m]) # last.expect

\* C22: contents.json is written by update_local_index_cache alone:
\* fetch_and_cache_index, regenerate_spec_cache, find_built_spec,
\* update_spec, get_all_built_specs, get_spec and needs_rebuild leave it
\* as it was.
C22_OnlyUpdatePersists ==
    [][/\ contents_json' # contents_json => last'.op = "update"
       /\ last'.op \in {"fetch", "regen", "find_built_spec", "update_spec",
                        "get_all_built_specs", "get_spec", "needs_rebuild"}
            => contents_json' = contents_json]_vars

\* a direct fetch_and_cache_index has put a mirror into the cache in
\* memory that the written contents.json does not list
C22_Witness ==
    /\ last.op = "fetch"
    /\ initialized
    /\ \E m \in FaultyMirrors :
          /\ last.mirror = m
          /\ local_index_cache[m] # NoEntry
          /\ contents_json[m] = NoEntry

\* the spec cache obtained by replaying the cached indices from scratch
Replayed(lic, files) == regenerate_spec_cache(<<>>, lic, files, 1).bsc

\* C23: after update_local_index_cache calls followed by
\* regenerate_spec_cache, the spec cache equals the replay of the cached
\* indices from scratch: it has no entry of a mirror that left the index
\* cache and no entry for a spec that is not in a mirror's cached index.
C23_SpecCacheDerived ==
    [][(last'.op = "regen" /\ ~last'.raised)
          => built_spec_cache' = Replayed(local_index_cache', index_files')]_vars

\* the file of mirror m's entry does not have the digest the entry records
Corrupted(lic, files, m) ==
    /\ lic[m] # NoEntry
    /\ compute_hash(files[lic[m].index_path]) # lic[m].index_hash

\* C24: when the cached index file of a configured mirror no longer has
\* the digest recorded in its entry, the next update_local_index_cache
\* refetches the index and leaves the entry with a file of the recorded
\* digest, without raising.
C24_CorruptionRecovered ==
    [][last'.op = "update"
          => \A m \in configured :
                Corrupted(CacheAtCall, index_files, m)
                   => /\ m \in last'.bodies
                      /\ ~Corrupted(local_index_cache', index_files', m)]_vars

\* C25: when reading some of the listed .spec.yaml files fails,
\* generate_package_index goes on with the other files and still pushes
\* index.json and index.json.hash; the index holds exactly the specs of
\* the files that were read.
C25_ReadFailuresSkipped ==
    [][(last'.op = "generate_package_index" /\ last'.fault = "none")
          => LET read == {Spec(d, f) : d \in last'.bodies \ last'.removed,
                                       f \in FullHashes}
             IN /\ ~last'.raised
                /\ last'.pushed = {"index", "index_hash"}
                /\ Len(cache_prefix_index'.index_json) = 1
                /\ cache_prefix_index'.index_json[1] \subseteq read
                /\ {s.dag_hash : s \in cache_prefix_index'.index_json[1]}
                      = last'.bodies \ last'.removed
                /\ cache_prefix_index'.index_json_hash
                      = <<compute_hash(cache_prefix_index'.index_json[1])>>]_vars

\* an index was pushed that lists the file that was read and not the file
\* whose read failed
C25_Witness ==
    /\ last.op = "generate_package_index"
    /\ last.removed # {}
    /\ last.bodies \ last.removed # {}
    /\ ~last.raised
    /\ Len(cache_prefix_index.index_json) = 1
    /\ cache_prefix_index.index_json[1] # {}

\* the manifest is one build_tarball writes for the spec being installed
BuiltFor(m, l) == m.has_map /\ m.deps = l.deps

\* C26: installing the unmodified archive that build_tarball made of a spec
\* into an empty layout succeeds; the file the manifest does not list is
\* as it was in the original prefix, and the text file, the binary and the
\* link it lists refer to the new prefix (or stay relative), not the old
\* one.
C26_RoundTrip ==
    [][(last'.op = "install" /\ BuiltFor(last'.buildinfo, last'.layout))
          => LET m == last'.buildinfo
                 new_prefix == last'.layout.root
                                  \o RelPath(last'.layout.rel_prefix)
                 packed == PackedFiles(m)
                 Moved(ref) == IF ref = RelativeRef THEN RelativeRef
                               ELSE new_prefix
             IN /\ last'.outcome = "ok"
                /\ installed'.present
                /\ installed'.files.other = packed.other
                /\ installed'.files.text = Moved(packed.text)
                /\ installed'.files.binary = Moved(packed.binary)
                /\ installed'.files.link = Moved(packed.link)]_vars

\* C27: a second relocate_package on an already relocated prefix, with the
\* same manifest and layout, leaves every file as it is or raises; it
\* does not substitute again inside a path that was rewritten before.
C27_RelocationIdempotent ==
    [][last'.op = "relocate_again"
          => \/ last'.outcome # "ok"
             \/ installed'.files = installed.files]_vars

\* C28: the table relocate_package builds maps every original prefix of
\* the manifest's prefix_to_hash to a defined prefix: the new prefix of
\* the dependency with the same dag hash, else the original prefix with
\* the old layout root replaced by the new one; none is mapped to None.
C28_RemapTableDefined ==
    [][(last'.op = "install" /\ last'.outcome = "ok")
          => LET m == last'.buildinfo
                 l == last'.layout
                 pth == PrefixToHash(m)
                 htp == HashToPrefix(l)
                 table == last'.prefix_to_prefix
             IN \A orig \in DOMAIN pth :
                   /\ orig \in DOMAIN table
                   /\ table[orig] # None
                   /\ table[orig] =
                         IF pth[orig] \in DOMAIN htp THEN htp[pth[orig]]
                         ELSE l.root \o SubSeq(orig, Len(m.buildpath) + 1,
                                               Len(orig))]_vars

\* C29: when contents.json does not exist, or exists with zero length,
\* the one time initialisation of the local index cache raises no error
\* and yields an empty cache.
C29_AbsentOrEmptyTolerated ==
    [][(last'.op = "init_cache" /\ last'.before \in {"absent", "empty"})
          => /\ ~last'.raised
             /\ local_index_cache' = EmptyIndexCache]_vars

\* C30: download_tarball fetches from the preferred url when that serves
\* the tarball; when it does not (or none is given) and a configured mirror
\* serves the tarball, the call fetches from such a mirror and returns the
\* path of the downloaded file; it returns None only when no candidate url
\* serves the tarball.
C30_PreferredThenMirrors ==
    [][(last'.op = "download" /\ configured # {})
          => LET url == last'.url
                 Serves(u) == u # NoUrl /\ u.mirror \in last'.serving
                 tries == urls_to_try(configured, url)
             IN /\ Serves(url)
                     => (last'.outcome = "path" /\ last'.from = url)
                /\ (~Serves(url) /\ configured \cap last'.serving # {})
                     => /\ last'.outcome = "path"
                        /\ Serves(last'.from)
                        /\ last'.from.mirror \in configured
                /\ last'.outcome = "none"
                     => \A i \in 1..Len(tries) : ~Serves(tries[i])]_vars

\* the stages that hold label s
StagesOf(stages, s) == {i \in 1..Len(stages) : s \in stages[i]}

\* C31: in the stages stage_spec_jobs returns, every spec label is in exactly
\* one stage, and for every dependency edge (spec, dep) of the returned deps
\* the stage of dep comes strictly before the stage of spec.
C31_StagesRespectDeps ==
    [][last'.op = "stage_spec_jobs"
          => LET stages == last'.stages
                 deps == last'.deps
             IN /\ \A s \in last'.spec_labels :
                      Cardinality(StagesOf(stages, s)) = 1
                /\ \A s \in Keys(deps) : \A d \in deps[s] :
                      \A i \in StagesOf(stages, s) :
                         /\ StagesOf(stages, d) # {}
                         /\ \A j \in StagesOf(stages, d) : j < i]_vars

\* a staging with at least three stages
C31_Witness ==
    /\ last.op = "stage_spec_jobs"
    /\ Len(last.stages) >= 3
    /\ \E s \in Keys(last.deps) : Cardinality(last.deps[s]) >= 2

\* C32: read_cdashid_from_mirror(spec, mirror) directly after
\* write_cdashid_to_mirror(id, spec, mirror) reads the location that was
\* written and returns the number the written id denotes.
C32_CdashIdRoundTrip ==
    [][(last.op = "write_cdashid" /\ last'.op = "read_cdashid"
           /\ last'.spec = last.spec /\ last'.mirror = last.mirror)
          => /\ ~last'.raised
             /\ ReadUrl(last'.spec, last'.mirror)
                   = WrittenUrl(last.spec, last.mirror)
             /\ Decimal(last'.value) = last.cdashid]_vars

\* an id of two digits was read back while another spec's id differs
C32_Witness ==
    /\ last.op = "read_cdashid"
    /\ ~last.raised
    /\ last.value >= 10
    /\ \E u \in DOMAIN cdashid_files :
          cdashid_files[u] # Decimal(last.value)

\* C33: after generate_package_index has completed without raising, the
\* index.json.hash below the cache prefix is the digest of the index.json
\* below it, so the digest check of fetch_and_cache_index accepts the pair.
C33_IndexHashMatchesIndex ==
    [][(last'.op = "generate_package_index" /\ ~last'.raised)
          => /\ Len(cache_prefix_index'.index_json) = 1
             /\ Len(cache_prefix_index'.index_json_hash) = 1
             /\ DigestAccepted(
                   compute_hash(cache_prefix_index'.index_json[1]),
                   cache_prefix_index'.index_json_hash[1])]_vars

\* a successful run replaced an index and a hash file that did not agree
C33_Witness ==
    /\ last.op = "generate_package_index"
    /\ ~last.raised
    /\ last.specs # {}
    /\ last.before = "stale"

\* mirror m is configured and cached with a hash other than the hash of
\* the index it serves now
Stale(m) ==
    /\ m \in configured
    /\ local_index_cache[m] # NoEntry
    /\ local_index_cache[m].index_hash # remoteHash[m]

C35_InstallOrdering ==
    [][last'.op = "extract_step"
          => /\ (prefix' # prefix /\ prefix' # NoBody)
                  => /\ extraction.checksummed
                     /\ extraction.unsigned \/ extraction.verified
             /\ extraction'.wrote
                  => /\ extraction'.checksummed
                     /\ extraction'.unsigned \/ extraction'.verified
             /\ (last'.relocated \/ last'.outcome = "RelocateError")
                  => extraction.wrote]_vars

\* a signed container was verified, checked, unpacked and relocated
C35_Witness ==
    /\ last.op = "extract_step"
    /\ last.relocated
    /\ extraction.verified
    /\ extraction.wrote
    /\ prefix \in Payloads


\* C36: needs_rebuild(S, M) directly after a build_tarball(S, M) that
\* succeeded, with the mirror readable, returns False for either value of
\* rebuild_on_errors: the path read is the path the spec description was
\* pushed to, and the full_hash recorded there is the one of S.
C36_PublishedNeedsNoRebuild ==
    [][(last.op = "build" /\ last.outcome = "ok"
           /\ last'.op = "needs_rebuild" /\ last'.spec = BuiltSpec
           /\ last'.fault = "none")
          => /\ ~last'.returned
             /\ mirror_specyaml # NoSpecYaml
             /\ mirror_specyaml.full_hash = BuiltSpec.full_hash
             /\ SpecYamlReadPath(BuiltSpec, <<DestMirror>>)
                   = RemoteSpecfilePath(BuiltSpec, <<DestMirror>>)]_vars

\* the check after a successful build said "up to date" although errors
\* were to count as a reason to rebuild
C36_Witness ==
    /\ last.op = "needs_rebuild"
    /\ last.before = "built"
    /\ last.spec = BuiltSpec
    /\ last.fault = "none"
    /\ last.rebuild_on_errors
    /\ ~last.returned


\* C37: when update_local_index_cache removes the entry of a mirror that
\* is no longer configured, the entry of every mirror that is still
\* configured points to a cached index file that exists afterwards, also
\* when both mirrors serve the same index content.
C37_RemovalKeepsSharedFile ==
    [][(last'.op = "update" /\ last'.removed # {})
          => \A m \in configured \cap CachedUrls(local_index_cache') :
                index_files'[local_index_cache'[m].index_path] # NoBody]_vars


\* C38: whenever no generate_package_index call is running on the mirror
\* any more, after concurrent calls whose pushes interleaved in any order,
\* the index.json.hash below the cache prefix is the digest of the
\* index.json stored there.
C38_ConcurrentIndexersAgree ==
    (/\ last.op = "indexer_push_hash"
     /\ \A p \in Indexers : indexers[p].pc = "idle")
       => /\ Len(cache_prefix_index.index_json) = 1
          /\ cache_prefix_index.index_json_hash
                = <<compute_hash(cache_prefix_index.index_json[1])>>


\* C39: while the hash file of a mirror cannot be read, a call of
\* fetch_and_cache_index for it, with any expect_hash, requests the index
\* body, does not raise, and leaves the index cache and the cached files
\* as they were; update_local_index_cache leaves the entry of such a
\* configured mirror as it was, so the mirror gets no new or changed entry.
C39_UnreadableHashNeverCaches ==
    [][\A m \in Mirrors :
         /\ (last'.op = "fetch" /\ last'.mirror = m
                 /\ ReadHashFile(Net, m) = EmptyHash)
              => /\ m \in last'.bodies
                 /\ ~last'.raised
                 /\ local_index_cache' = local_index_cache
                 /\ index_files' = index_files
         /\ (last'.op = "update" /\ m \in configured
                 /\ ReadHashFile(Net, m) = EmptyHash)
              => /\ m \in last'.bodies
                 /\ local_index_cache'[m] = CacheAtCall[m]
    ]_vars

\* a call with an expected hash found the hash file unreadable and the
\* index readable, and the mirror's entry is still the one of another index
C39_Witness ==
    \E m \in FaultyMirrors :
        /\ last.op = "fetch" /\ last.mirror = m /\ m \in last.bodies
        /\ last.expect # EmptyHash
        /\ remoteHash[m] = EmptyHash
        /\ remoteIndex[m] # NoBody
        /\ local_index_cache[m] # NoEntry
        /\ local_index_cache[m].index_hash # compute_hash(remoteIndex[m])

====
